---- MODULE Spec2Model ----
(***************************************************************************)
(* A model of the task executor (v2/ansible/executor/task_executor.py) and *)
(* of the play/role compilation pipeline (v2/ansible/playbook).            *)
(*                                                                         *)
(* Python mappings (dict) are functions with a finite set of string keys;  *)
(* "key in d" is  key \in DOMAIN d.  Python strings that the code builds   *)
(* (loop items, joined items) are sequences of one-character strings.      *)
(* External collaborators (conditional evaluator, action handlers, plugin  *)
(* loaders, Task.copy) answer nondeterministically.                        *)
(***************************************************************************)
EXTENDS Integers, Sequences, FiniteSets, TLC

\* ------------------------------------------------------------------ bounds
MaxRetries == 2
MaxItems   == 2
MaxAsync   == 3
MaxPoll    == 2
MaxDeps        == 2
MaxTasks       == 1
MaxPlayRoles   == 2
RecursionLimit == 4
MaxRun         == 1

\* ------------------------------------------------------- mapping helpers
\* d[k] = v on a copy of d
Put(d, k, v) == [x \in (DOMAIN d) \cup {k} |-> IF x = k THEN v ELSE d[x]]

\* d.get(k, dflt)
Get(d, k, dflt) == IF k \in DOMAIN d THEN d[k] ELSE dflt

\* the value None where a result mapping is expected
None == [none |-> TRUE]

\* ------------------------------------------------------------ strings
ItemNames == <<"a", "b", "c", "d">>

\* the item sequence [a, b, ...] of length n, each item a one-character string
ItemSeq(n) == [j \in 1..n |-> <<ItemNames[j]>>]

RECURSIVE Join(_)
\* ",".join(strs)
Join(strs) ==
    IF Len(strs) = 0 THEN <<>>
    ELSE IF Len(strs) = 1 THEN strs[1]
    ELSE strs[1] \o <<",">> \o Join(Tail(strs))

\* ------------------------------------------------ the environment's answers
SquashActions == {"apt", "yum", "pkgng", "zypper"}

\* what a normal (or named) action handler's run() may return
HandlerResults ==
    { [changed |-> TRUE, rc |-> 0],
      [failed |-> TRUE, msg |-> "module failed"],
      [rc |-> 1],
      [skipped |-> TRUE] }

\* the structured payloads an async submission may print
AsyncPayloads ==
    { [ansible_job_id |-> "jid", started |-> 1],
      [started |-> 1] }

\* what the async action handler's run() may return: stdout is JSON text
\* (valid, holding a payload) or text that is no JSON
AsyncHandlerResults ==
    { [stdout |-> [valid |-> FALSE]] } \cup
    { [stdout |-> [valid |-> TRUE, value |-> p]] : p \in AsyncPayloads }

\* what the async_status check may return
StatusResults ==
    { [finished |-> 0],
      [finished |-> 1, changed |-> TRUE],
      [failed |-> TRUE, msg |-> "job failed"],
      [skipped |-> TRUE] }

\* json.loads(text): the parsed value, or a ValueError
JsonLoads(text) ==
    IF text.valid THEN [ok |-> TRUE, value |-> text.value] ELSE [ok |-> FALSE]

\* ------------------------------------------------------------- the tasks
\* the value of the omit variable
OmitToken == "__omit_place_holder__"

\* an argument written as a template that renders to the omit variable
OmitTemplate == "{{ omit }}"

\* the argument mappings of a task: without and with an omitted argument
PlainArgs == [name |-> "pkg"]

ArgSets == { PlainArgs, [name |-> "pkg", state |-> OmitTemplate] }

\* the job variables: without and with the omit variable
PlainJobVars == [inventory_hostname |-> "host"]

OmitJobVars == [inventory_hostname |-> "host", omit |-> OmitToken]

Tasks ==
    [ action       : {"shell", "apt"},
      async        : {0, MaxAsync},
      poll         : {0, MaxPoll},
      retries      : 0..MaxRetries,
      delay        : {-1, 0},
      until        : BOOLEAN,
      changed_when : BOOLEAN,
      failed_when  : BOOLEAN,
      register     : {"None", "reg"},
      loop         : {"None", "items"},
      loop_args    : { ItemSeq(n) : n \in 0..MaxItems },
      args         : ArgSets ]

VARIABLES
    task,          \* the compiled Task handed to the executor
    tmp_task,      \* _run_loop: the copy of the task that is swapped in
    job_vars,      \* self._job_vars
    pc,            \* the statement run() is at
    caller,        \* who called _execute: "run" or "_run_loop"
    items,         \* _run_loop: items (after _squash_items)
    idx,           \* _run_loop: position of the for loop in items (1-based)
    results,       \* _run_loop: results
    task_vars,     \* _run_loop: task_vars
    squash_pass,   \* _squash_items: the per-item conditional outcomes
    res,           \* run: res
    variables,     \* _execute: variables
    vars_copy,     \* _execute: vars_copy
    retries,       \* _execute: retries
    delay,         \* _execute: delay
    attempt,       \* _execute: attempts of the for loop begun so far
    result,        \* _execute: result
    handler,       \* self._handler (its name)
    connection,    \* connections obtained and connected so far
    time_left,     \* _poll_async_result: time_left
    async_result,  \* _poll_async_result: async_result
    ret,           \* what run() gave its caller
    calls,         \* handler.run() invocations of the current _execute
    sleeps,        \* time.sleep(delay) calls of the current _execute
    until_log,     \* outcomes of the until guard in the current _execute
    checks,        \* status checks of the current _poll_async_result
    poll_sleeps,   \* time.sleep(poll) calls of the current _poll_async_result
    nexec,         \* _execute calls made by this run()
    conditional    \* outcome of the task's conditional in the current _execute

exec_vars == << task, tmp_task, job_vars, pc, caller, items, idx, results, task_vars,
                squash_pass, res, variables, vars_copy, retries, delay,
                attempt, result, handler, connection, time_left,
                async_result, ret, calls, sleeps, until_log, checks,
                poll_sleeps, nexec, conditional >>

\* a TaskExecutor before run()
ExecStart ==
    /\ tmp_task = None
    /\ pc = "run"
    /\ caller = "run"
    /\ items = <<>>
    /\ idx = 0
    /\ results = <<>>
    /\ task_vars = [none |-> TRUE]
    /\ squash_pass = <<>>
    /\ res = None
    /\ variables = [none |-> TRUE]
    /\ vars_copy = [none |-> TRUE]
    /\ retries = 0
    /\ delay = 0
    /\ attempt = 0
    /\ result = None
    /\ handler = "None"
    /\ connection = 0
    /\ time_left = 0
    /\ async_result = None
    /\ ret = [type |-> "none"]
    /\ calls = <<>>
    /\ sleeps = <<>>
    /\ until_log = <<>>
    /\ checks = <<>>
    /\ poll_sleeps = <<>>
    /\ nexec = 0
    /\ conditional = "None"

ExecInit ==
    \* loop_args is read only when a loop is set, poll only when async > 0
    \* here no argument is omitted and there is no omit variable
    /\ task \in { t \in Tasks :
                    /\ t.loop = "None" => t.loop_args = <<>>
                    /\ t.async = 0 => t.poll = 0
                    /\ t.args = PlainArgs }
    /\ job_vars = PlainJobVars
    /\ ExecStart

\* tasks with and without an omitted argument, the omit variable being set;
\* no guard, no register, no delay
ArgsInit ==
    /\ task \in { t \in Tasks :
                    /\ t.loop = "None" => t.loop_args = <<>>
                    /\ t.async = 0 => t.poll = 0
                    /\ ~t.until /\ ~t.changed_when /\ ~t.failed_when
                    /\ t.register = "None" /\ t.delay = 0 }
    /\ job_vars = OmitJobVars
    /\ ExecStart

\* async tasks with a poll interval, without guard, register or delay
PollInit ==
    /\ task \in { t \in Tasks :
                    /\ t.loop = "None" => t.loop_args = <<>>
                    /\ t.async > 0 /\ t.poll > 0
                    /\ ~t.until /\ ~t.changed_when /\ ~t.failed_when
                    /\ t.register = "None" /\ t.delay = 0
                    /\ t.args = PlainArgs }
    /\ job_vars = PlainJobVars
    /\ ExecStart

\* the executor of a task that is not run while a play is loaded and compiled
ExecIdle ==
    /\ task = [action |-> "shell", async |-> 0, poll |-> 0, retries |-> 0,
               delay |-> 0, until |-> FALSE, changed_when |-> FALSE,
               failed_when |-> FALSE, register |-> "None", loop |-> "None",
               loop_args |-> <<>>, args |-> PlainArgs]
    /\ job_vars = PlainJobVars
    /\ ExecStart

\* ------------------------------------------------ roles, blocks and plays

\* the empty dict
EmptyDict == [k \in {} |-> 0]

RoleNames == {"A", "B", "C"}

\* a second directory that holds a role named A
AltPath == "A_alt"

\* the role directories: the one a role's name resolves to by default, named
\* as the role, and AltPath
Paths == RoleNames \cup {AltPath}

\* the parameter sets a role is included with
ParamSets == { EmptyDict, [x |-> 3] }

\* role includes (RoleInclude): the role's name, get_role_path() and
\* get_role_params(); here every name resolves to its default directory
Includes == { [role |-> n, path |-> n, params |-> p] :
                n \in RoleNames, p \in ParamSets }

\* the includes of role A that resolve to the second directory
AltIncludes == { [role |-> "A", path |-> AltPath, params |-> p] :
                   p \in ParamSets }

\* the dependency lists a role's meta/main.yml may declare: at most MaxDeps
\* includes of distinct roles, here without parameters
DepLists ==
    { d \in UNION { [1..n -> { [role |-> r, path |-> r, params |-> EmptyDict] :
                                 r \in RoleNames }] : n \in 0..MaxDeps } :
        \A i, j \in 1..Len(d) : i # j => d[i].role # d[j].role }

\* what the loader may find in a role directory on first reading it: the
\* dependencies of meta/main.yml, the number of tasks of tasks/main.yml, and
\* no vars/ or defaults/ file
RoleFiles ==
    [read : {TRUE}, dependencies : DepLists, tasks : 0..MaxTasks,
     vars : {EmptyDict}, defaults : {EmptyDict}]

VARIABLES
    role_includes, \* the role includes the play documents may name
    threads,       \* the callers of Role.load: 1 is the Play, 2 a second one
    role_files,    \* the content of each role directory, once it is known
    ROLE_CACHE,    \* ROLE_CACHE
    role_objs,     \* the Role objects constructed so far; a Role is its index
    stack,         \* the Play's Role.load calls in progress, innermost last
    load_error,    \* Role.load raised AnsibleError to Play._load_roles
    play,          \* the Play
    play2,         \* the roles, stack and error of the second caller
    returned,      \* every Role.load call that returned: caller, include, Role
    compiled       \* what Play.compile() returned

role_vars == << role_includes, threads, role_files, ROLE_CACHE, role_objs,
                stack, load_error, play, play2, returned, compiled >>

NotRead == [read |-> FALSE]

NotCompiled == [done |-> FALSE]

\* nothing is loaded yet
PlayStart ==
    /\ ROLE_CACHE = EmptyDict
    /\ role_objs = <<>>
    /\ stack = <<>>
    /\ load_error = FALSE
    /\ play = [roles |-> <<>>, pre_tasks |-> <<>>, tasks |-> <<>>,
               post_tasks |-> <<>>]
    /\ play2 = [roles |-> <<>>, stack |-> <<>>, load_error |-> FALSE]
    /\ returned = {}
    /\ compiled = NotCompiled

\* one Play, every role included by its default directory, no directory read
PlayInit ==
    /\ role_includes = Includes
    /\ threads = {1}
    /\ role_files = [p \in Paths |-> NotRead]
    /\ PlayStart

\* the position of a role directory among the directories
PathIndex(p) ==
    CASE p = "A" -> 1 [] p = "B" -> 2 [] p = "C" -> 3 [] OTHER -> 4

\* an include of role n by its default directory, without parameters
Dep(n) == [role |-> n, path |-> n, params |-> EmptyDict]

\* the dependencies the directories of A, B and C declare in a layout: a
\* dependency shared by two roles, a chain, a chain with a shortcut, and a
\* dependency declared twice by one role
DepShapes ==
    { [A |-> << Dep("C") >>, B |-> << Dep("C") >>, C |-> <<>>],
      [A |-> << Dep("B") >>, B |-> << Dep("C") >>, C |-> <<>>],
      [A |-> << Dep("B"), Dep("C") >>, B |-> << Dep("C") >>, C |-> <<>>],
      [A |-> << Dep("C"), Dep("C") >>, B |-> << Dep("C") >>, C |-> <<>>] }

\* vars/main.yml of directory p when it exists: x with a value of its own
VarsFile(p) == [x |-> 20 + PathIndex(p)]

\* defaults/main.yml of directory p when it exists
DefaultsFile(p) == [x |-> 10 + PathIndex(p)]

\* role directories whose content is fixed from the start: a dependency
\* shape, for each of A, B, C whether it has a vars file, and whether they
\* have defaults files; the second directory of A has a vars file and no
\* dependency
Layouts ==
    { [p \in Paths |->
         IF p = AltPath
           THEN [read |-> TRUE, dependencies |-> <<>>, tasks |-> MaxTasks,
                 vars |-> VarsFile(p), defaults |-> EmptyDict]
           ELSE [read |-> TRUE, dependencies |-> sh[p], tasks |-> MaxTasks,
                 vars |-> IF v[p] THEN VarsFile(p) ELSE EmptyDict,
                 defaults |-> IF d THEN DefaultsFile(p) ELSE EmptyDict]] :
        sh \in DepShapes, v \in [RoleNames -> BOOLEAN], d \in BOOLEAN }

\* one Play over a fixed layout; role A may also be included by its second
\* directory
RolesInit ==
    /\ role_includes = Includes \cup AltIncludes
    /\ threads = {1}
    /\ role_files \in Layouts
    /\ PlayStart

\* two Plays loading their roles at the same time over a fixed layout
\* without vars and defaults files, each including B or C without parameters
ConcInit ==
    /\ role_includes = { Dep("B"), Dep("C") }
    /\ threads = {1, 2}
    /\ role_files \in { l \in Layouts :
                          \A p \in RoleNames : /\ l[p].vars = EmptyDict
                                                /\ l[p].defaults = EmptyDict }
    /\ PlayStart

\* a task of the role object (0: of the play itself) in the given section
\* and branch of a block
MkTask(obj, sec, k, branch) ==
    [role |-> obj, sec |-> sec, k |-> k, branch |-> branch, _dep_chain |-> <<>>]

\* the task blocks load_list_of_blocks builds for a role with n tasks: one
\* block holding the n tasks, with a rescue branch
RoleBlocks(obj, n) ==
    IF n = 0 THEN <<>>
    ELSE << [block  |-> [k \in 1..n |-> MkTask(obj, "role", k, "block")],
             rescue |-> << MkTask(obj, "role", 1, "rescue") >>,
             always |-> <<>>] >>

\* the blocks of a play section with n bare tasks: one implicit block per
\* task (Block.munge), here each with an always branch
PlayBlocks(sec, n) ==
    [k \in 1..n |-> [block  |-> << MkTask(0, sec, k, "block") >>,
                     rescue |-> <<>>,
                     always |-> << MkTask(0, sec, k, "always") >>]]

\* Role(): a fresh Role
NewRole ==
    [_role_name |-> "None", _role_path |-> "None", _role_params |-> EmptyDict,
     _parents |-> <<>>, _dependencies |-> <<>>, _task_blocks |-> <<>>,
     _default_vars |-> EmptyDict, _role_vars |-> EmptyDict,
     _had_task_run |-> FALSE, _completed |-> FALSE]

\* frozenset(role_include.get_role_params().iteritems())
HashedParams(params) == { <<k, params[k]>> : k \in DOMAIN params }

\* CacheLookup taking the first Role cached under the include's name
CacheLookupByName(cache, inc) ==
    IF inc.role \in DOMAIN cache
      THEN cache[inc.role][CHOOSE e \in DOMAIN cache[inc.role] : TRUE]
      ELSE 0

\* the lookup at the head of Role.load: the cached Role of the include's
\* name whose entry equals the hashed parameters, 0 if there is none
CacheLookup(cache, inc) ==
    IF inc.role \in DOMAIN cache
         /\ HashedParams(inc.params) \in DOMAIN cache[inc.role]
      THEN cache[inc.role][HashedParams(inc.params)]
      ELSE 0

\* ROLE_CACHE[role_include.role][hashed_params] = r
CacheInsert(cache, inc, r) ==
    Put(cache, inc.role,
        Put(IF inc.role \in DOMAIN cache THEN cache[inc.role] ELSE EmptyDict,
            HashedParams(inc.params), r))

\* AddParent appending parent_role whether or not it is in _parents
AddParentAgain(role, parent) == [role EXCEPT !._parents = Append(@, parent)]

\* add_parent: append parent_role unless it is in _parents already
AddParent(role, parent) ==
    IF \E i \in 1..Len(role._parents) : role._parents[i] = parent
      THEN role
      ELSE [role EXCEPT !._parents = Append(@, parent)]

\* a call of Role.load(role_include, parent_role) that has not begun
CallFrame(inc, parent) ==
    [phase |-> "load", inc |-> inc, parent |-> parent, obj |-> 0,
     next |-> 0, deps |-> <<>>]

\* the Role.load calls in progress of caller c, innermost last
StackOf(c) == IF c = 1 THEN stack ELSE play2.stack

\* the roles caller c has loaded so far
RolesOf(c) == IF c = 1 THEN play.roles ELSE play2.roles

\* Role.load raised AnsibleError to caller c
ErrorOf(c) == IF c = 1 THEN load_error ELSE play2.load_error

\* caller c goes on with the calls stk in progress, the roles it has loaded
\* and whether an error reached it
SetCaller(c, stk, roles, err) ==
    IF c = 1
      THEN /\ stack' = stk
           /\ play' = [play EXCEPT !.roles = roles]
           /\ load_error' = err
           /\ UNCHANGED play2
      ELSE /\ play2' = [roles |-> roles, stack |-> stk, load_error |-> err]
           /\ UNCHANGED << stack, play, load_error >>

\* Role.load(inc) returns Role r to its caller: _load_dependencies appends
\* it to deps and goes on, _load_roles appends it to roles
Deliver(c, rest, inc, r) ==
    /\ returned' = returned \cup { [caller |-> c, inc |-> inc, role |-> r] }
    /\ IF Len(rest) = 0
         THEN SetCaller(c, <<>>, Append(RolesOf(c), r), ErrorOf(c))
         ELSE SetCaller(c, [rest EXCEPT ![Len(rest)] =
                              [@ EXCEPT !.deps = Append(@, r), !.next = @ + 1]],
                        RolesOf(c), ErrorOf(c))

\* _load_roles of caller c: for ri in role_includes:
\* roles.append(Role.load(ri))
PlayLoadRole(c) ==
    /\ StackOf(c) = <<>>
    /\ ~ErrorOf(c)
    /\ ~compiled.done
    /\ Len(RolesOf(c)) < MaxPlayRoles
    /\ \E inc \in role_includes :
         SetCaller(c, << CallFrame(inc, 0) >>, RolesOf(c), ErrorOf(c))
    /\ UNCHANGED << role_includes, threads, role_files, ROLE_CACHE, role_objs,
                    returned, compiled >>
    /\ UNCHANGED exec_vars

\* the head of Role.load: on a hit record the parent and return the cached
\* Role; on a miss construct a Role and run _load_role_data up to the
\* metadata, reading the role's directory
LoadLookup(c) ==
    /\ StackOf(c) # <<>>
    /\ LET stk  == StackOf(c)
           top  == stk[Len(stk)]
           rest == SubSeq(stk, 1, Len(stk) - 1)
           hit  == CacheLookup(ROLE_CACHE, top.inc)
           r    == Len(role_objs) + 1
       IN  /\ top.phase = "load"
           /\ IF hit # 0
                THEN /\ role_objs' =
                          IF top.parent # 0
                            THEN [role_objs EXCEPT
                                    ![hit] = AddParent(@, top.parent)]
                            ELSE role_objs
                     /\ Deliver(c, rest, top.inc, hit)
                     /\ UNCHANGED role_files
                ELSE /\ role_objs' =
                          Append(role_objs,
                                 LET fresh == [NewRole EXCEPT
                                       !._role_name = top.inc.role,
                                       !._role_path = top.inc.path,
                                       !._role_params = top.inc.params]
                                 IN  IF top.parent # 0
                                       THEN AddParent(fresh, top.parent)
                                       ELSE fresh)
                     /\ IF role_files[top.inc.path].read
                          THEN UNCHANGED role_files
                          ELSE \E files \in RoleFiles :
                                 role_files' =
                                   [role_files EXCEPT ![top.inc.path] = files]
                     /\ SetCaller(c, Append(rest,
                                    [top EXCEPT !.phase = "_load_dependencies",
                                                !.obj = r, !.next = 1]),
                                  RolesOf(c), ErrorOf(c))
                     /\ UNCHANGED returned
    /\ UNCHANGED << role_includes, threads, ROLE_CACHE, compiled >>
    /\ UNCHANGED exec_vars

\* DepthExceeded without the interpreter's recursion limit
DepthNeverExceeded(stk) == FALSE

\* a further call of Role.load exceeds the interpreter's recursion limit,
\* which raises the RuntimeError that Role.load catches
DepthExceeded(stk) == Len(stk) >= RecursionLimit

\* _load_dependencies: r = Role.load(role_include, parent_role=self) for the
\* next declared dependency; past the recursion limit the RuntimeError
\* becomes an AnsibleError that unwinds every Role.load in progress
LoadDep(c) ==
    /\ StackOf(c) # <<>>
    /\ ~ErrorOf(c)
    /\ LET stk == StackOf(c)
           top == stk[Len(stk)]
           declared == role_files[top.inc.path].dependencies
       IN  /\ top.phase = "_load_dependencies"
           /\ top.next <= Len(declared)
           /\ IF DepthExceeded(stk)
                THEN SetCaller(c, <<>>, RolesOf(c), TRUE)
                ELSE SetCaller(c, Append(stk,
                                     CallFrame(declared[top.next], top.obj)),
                               RolesOf(c), ErrorOf(c))
    /\ UNCHANGED << role_includes, threads, role_files, ROLE_CACHE, role_objs,
                    returned, compiled >>
    /\ UNCHANGED exec_vars

\* the rest of Role.load once every dependency is loaded: _dependencies, the
\* task blocks, vars and defaults are set, the Role is registered and
\* returned
LoadReturn(c) ==
    /\ StackOf(c) # <<>>
    /\ LET stk  == StackOf(c)
           top  == stk[Len(stk)]
           rest == SubSeq(stk, 1, Len(stk) - 1)
           files == role_files[top.inc.path]
       IN  /\ top.phase = "_load_dependencies"
           /\ top.next > Len(files.dependencies)
           /\ role_objs' = [role_objs EXCEPT ![top.obj] =
                              [@ EXCEPT !._dependencies = top.deps,
                                        !._task_blocks =
                                           RoleBlocks(top.obj, files.tasks),
                                        !._role_vars = files.vars,
                                        !._default_vars = files.defaults]]
           /\ ROLE_CACHE' = CacheInsert(ROLE_CACHE, top.inc, top.obj)
           /\ Deliver(c, rest, top.inc, top.obj)
    /\ UNCHANGED << role_includes, threads, role_files, compiled >>
    /\ UNCHANGED exec_vars

\* ------------------------------------------------------- variable scopes

\* the concatenation of a sequence of sequences
RECURSIVE Flatten(_)
Flatten(seqs) ==
    IF Len(seqs) = 0 THEN <<>> ELSE seqs[1] \o Flatten(Tail(seqs))

\* combine_vars(a, b): the keys of both, b's value where both have the key
CombineVars(a, b) ==
    [k \in (DOMAIN a) \cup (DOMAIN b) |-> IF k \in DOMAIN b THEN b[k] ELSE a[k]]

\* v = dict(); for d in dicts: v = combine_vars(v, d)
RECURSIVE CombineAll(_)
CombineAll(dicts) ==
    IF Len(dicts) = 0 THEN EmptyDict
    ELSE CombineVars(CombineAll(SubSeq(dicts, 1, Len(dicts) - 1)),
                     dicts[Len(dicts)])

\* get_all_dependencies(): the dependencies of Role r, each after its own
\* dependencies
RECURSIVE GetAllDependencies(_, _)
GetAllDependencies(objs, r) ==
    Flatten([i \in 1..Len(objs[r]._dependencies) |->
               Append(GetAllDependencies(objs, objs[r]._dependencies[i]),
                      objs[r]._dependencies[i])])

\* get_default_vars()
RECURSIVE GetDefaultVars(_, _)
GetDefaultVars(objs, r) ==
    LET deps == GetAllDependencies(objs, r) IN
      CombineVars(
        CombineAll([i \in 1..Len(deps) |-> GetDefaultVars(objs, deps[i])]),
        objs[r]._default_vars)

\* get_inherited_vars()
RECURSIVE GetInheritedVars(_, _)
GetInheritedVars(objs, r) ==
    LET parents == objs[r]._parents IN
      CombineAll([i \in 1..Len(parents) |->
        CombineAll(<< GetInheritedVars(objs, parents[i]),
                      objs[parents[i]]._role_vars,
                      objs[parents[i]]._role_params >>)])

\* get_vars()
RECURSIVE GetVars(_, _)
GetVars(objs, r) ==
    LET deps == GetAllDependencies(objs, r) IN
      CombineAll(<< GetInheritedVars(objs, r),
                    CombineAll([i \in 1..Len(deps) |-> GetVars(objs, deps[i])]),
                    objs[r]._role_vars,
                    objs[r]._role_params >>)

\* the resolved scope of Role r: its variables over its defaults
Resolve(objs, r) == CombineVars(GetDefaultVars(objs, r), GetVars(objs, r))

\* ------------------------------------------------------------ serialization

\* Serialize without the two execution-state flags
RECURSIVE SerializeNoFlags(_, _, _)
SerializeNoFlags(objs, r, include_deps) ==
    LET role == objs[r]
        ser  == [_role_name |-> role._role_name,
                 _role_path |-> role._role_path,
                 _role_vars |-> role._role_vars,
                 _role_params |-> role._role_params,
                 _default_vars |-> role._default_vars,
                 _parents |-> [i \in 1..Len(role._parents) |->
                                 SerializeNoFlags(objs, role._parents[i], FALSE)]]
    IN  IF include_deps
          THEN Put(ser, "_dependencies",
                   [i \in 1..Len(role._dependencies) |->
                      SerializeNoFlags(objs, role._dependencies[i], TRUE)])
          ELSE ser

\* Serialize giving every serialized parent a dependency list
RECURSIVE SerializeParentsListDeps(_, _, _)
SerializeParentsListDeps(objs, r, include_deps) ==
    LET role == objs[r]
        ser  == [_role_name |-> role._role_name,
                 _role_path |-> role._role_path,
                 _role_vars |-> role._role_vars,
                 _role_params |-> role._role_params,
                 _default_vars |-> role._default_vars,
                 _had_task_run |-> role._had_task_run,
                 _completed |-> role._completed,
                 _parents |-> [i \in 1..Len(role._parents) |->
                                 Put(SerializeParentsListDeps(
                                       objs, role._parents[i], FALSE),
                                     "_dependencies", <<>>)]]
    IN  IF include_deps
          THEN Put(ser, "_dependencies",
                   [i \in 1..Len(role._dependencies) |->
                      SerializeParentsListDeps(objs, role._dependencies[i],
                                               TRUE)])
          ELSE ser

\* serialize(include_deps) of Role r: the role's own fields, its
\* dependencies serialized in full when include_deps is set, and its parents
\* serialized without their dependencies
RECURSIVE Serialize(_, _, _)
Serialize(objs, r, include_deps) ==
    LET role == objs[r]
        ser  == [_role_name |-> role._role_name,
                 _role_path |-> role._role_path,
                 _role_vars |-> role._role_vars,
                 _role_params |-> role._role_params,
                 _default_vars |-> role._default_vars,
                 _had_task_run |-> role._had_task_run,
                 _completed |-> role._completed,
                 _parents |-> [i \in 1..Len(role._parents) |->
                                 Serialize(objs, role._parents[i], FALSE)]]
    IN  IF include_deps
          THEN Put(ser, "_dependencies",
                   [i \in 1..Len(role._dependencies) |->
                      Serialize(objs, role._dependencies[i], TRUE)])
          ELSE ser

\* deserialize(data, include_deps) on a fresh Role: the Role it becomes,
\* holding the Roles deserialized for its dependencies and parents
RECURSIVE Deserialize(_, _)
Deserialize(data, include_deps) ==
    LET deps    == Get(data, "_dependencies", <<>>)
        parents == Get(data, "_parents", <<>>)
    IN  [_role_name |-> Get(data, "_role_name", ""),
         _role_path |-> Get(data, "_role_path", ""),
         _role_vars |-> Get(data, "_role_vars", EmptyDict),
         _role_params |-> Get(data, "_role_params", EmptyDict),
         _default_vars |-> Get(data, "_default_vars", EmptyDict),
         _had_task_run |-> Get(data, "_had_task_run", FALSE),
         _completed |-> Get(data, "_completed", FALSE),
         _task_blocks |-> <<>>,
         _dependencies |->
            IF include_deps
              THEN [i \in 1..Len(deps) |-> Deserialize(deps[i], TRUE)]
              ELSE <<>>,
         _parents |-> [i \in 1..Len(parents) |-> Deserialize(parents[i], FALSE)]]

\* the Roles the execution layer has marked
Marked(objs) ==
    { r \in 1..Len(objs) : objs[r]._had_task_run \/ objs[r]._completed }

\* the execution layer iterates over a loaded Role and sets its two
\* execution-state flags
MarkRun ==
    /\ stack = <<>>
    /\ Cardinality(Marked(role_objs)) < MaxRun
    /\ \E r \in 1..Len(role_objs), ran \in BOOLEAN, done \in BOOLEAN :
         /\ r \notin Marked(role_objs)
         /\ ran \/ done
         /\ role_objs' = [role_objs EXCEPT ![r] =
                            [@ EXCEPT !._had_task_run = ran,
                                      !._completed = done]]
    /\ UNCHANGED << role_includes, threads, role_files, ROLE_CACHE, stack,
                    load_error, play, play2, returned, compiled >>
    /\ UNCHANGED exec_vars

\* ------------------------------------------------------------- compilation

\* Task.compile(): a plain task compiles to itself
TaskCompile(t) == << t >>

\* Block.compile(): the compiled tasks of the primary branch only
BlockCompile(b) == Flatten([i \in 1..Len(b.block) |-> TaskCompile(b.block[i])])

\* compile_block_list(block_list): the compiled blocks, in order
CompileBlockList(blocks) ==
    Flatten([i \in 1..Len(blocks) |-> BlockCompile(blocks[i])])

\* dep_task.copy() with _dep_chain set to the new dependency chain
Stamp(tasks, chain) ==
    [i \in 1..Len(tasks) |-> [tasks[i] EXCEPT !._dep_chain = chain]]

\* the tasks of a list without those whose role and position occurred
\* earlier in the list
RECURSIVE KeepFirst(_)
KeepFirst(tasks) ==
    IF Len(tasks) = 0 THEN <<>>
    ELSE LET init == SubSeq(tasks, 1, Len(tasks) - 1)
             last == tasks[Len(tasks)]
         IN  IF \E i \in 1..Len(init) :
                  init[i].role = last.role /\ init[i].k = last.k
               THEN KeepFirst(init)
               ELSE Append(KeepFirst(init), last)

\* RoleCompile that takes the tasks of a Role reached twice only once
RECURSIVE RoleCompileOnce(_, _, _)
RoleCompileOnce(objs, r, dep_chain) ==
    LET new_dep_chain == Append(dep_chain, r)
        deps == objs[r]._dependencies
    IN  KeepFirst(
          Flatten([i \in 1..Len(deps) |->
                 Stamp(RoleCompileOnce(objs, deps[i], new_dep_chain),
                       new_dep_chain)])
            \o CompileBlockList(objs[r]._task_blocks))

\* RoleCompile with the role's own tasks ahead of its dependencies' tasks
RECURSIVE RoleCompileOwnFirst(_, _, _)
RoleCompileOwnFirst(objs, r, dep_chain) ==
    LET new_dep_chain == Append(dep_chain, r)
        deps == objs[r]._dependencies
    IN  CompileBlockList(objs[r]._task_blocks)
          \o Flatten([i \in 1..Len(deps) |->
                 Stamp(RoleCompileOwnFirst(objs, deps[i], new_dep_chain),
                       new_dep_chain)])

\* Role.compile(dep_chain) of Role r among the Role objects objs
RECURSIVE RoleCompile(_, _, _)
RoleCompile(objs, r, dep_chain) ==
    LET new_dep_chain == Append(dep_chain, r)
        deps == objs[r]._dependencies
    IN  Flatten([i \in 1..Len(deps) |->
                 Stamp(RoleCompile(objs, deps[i], new_dep_chain),
                       new_dep_chain)])
          \o CompileBlockList(objs[r]._task_blocks)

\* Play._compile_roles(): the compiled roles in role-list order
CompileRoles(objs, roles) ==
    Flatten([i \in 1..Len(roles) |-> RoleCompile(objs, roles[i], <<>>)])

\* PlayCompile with the roles compiled ahead of the pre-tasks
PlayCompileRolesFirst(objs, p) ==
    CompileRoles(objs, p.roles)
      \o CompileBlockList(p.pre_tasks)
      \o CompileBlockList(p.tasks)
      \o CompileBlockList(p.post_tasks)

\* Play.compile()
PlayCompile(objs, p) ==
    CompileBlockList(p.pre_tasks)
      \o CompileRoles(objs, p.roles)
      \o CompileBlockList(p.tasks)
      \o CompileBlockList(p.post_tasks)

\* the play's task sections are loaded and the play is compiled
Compile ==
    /\ stack = <<>>
    /\ ~load_error
    /\ ~compiled.done
    /\ \E n_pre \in {0, MaxTasks}, n_tasks \in {0, MaxTasks},
          n_post \in {0, MaxTasks} :
         play' = [play EXCEPT !.pre_tasks = PlayBlocks("pre", n_pre),
                              !.tasks = PlayBlocks("tasks", n_tasks),
                              !.post_tasks = PlayBlocks("post", n_post)]
    /\ compiled' = [done |-> TRUE, task_list |-> PlayCompile(role_objs, play')]
    /\ UNCHANGED << role_includes, threads, role_files, ROLE_CACHE, role_objs,
                    stack, load_error, play2, returned >>
    /\ UNCHANGED exec_vars

PlayNext ==
    \/ \E c \in threads : PlayLoadRole(c)
    \/ \E c \in threads : LoadLookup(c)
    \/ \E c \in threads : LoadDep(c)
    \/ \E c \in threads : LoadReturn(c)
    \/ Compile

\* ------------------------------------------------------------ TaskExecutor

\* how run() ends on an AnsibleError: except AnsibleError, e: return dict(...)
CaughtResult(msg) == [failed |-> TRUE, msg |-> msg]

\* an exception raised below run(): AnsibleError is caught and converted,
\* any other exception propagates to run()'s caller
Raise(exc, msg) ==
    /\ pc' = "done"
    /\ ret' = IF exc = "AnsibleError"
                THEN [type |-> "dict", value |-> CaughtResult(msg)]
                ELSE [type |-> "raised", value |-> [exc |-> exc]]

\* the items _get_loop_items() returns: None without a loop plugin, else
\* the items the lookup plugin produces from the task's loop terms
GetLoopItems(t) ==
    IF t.loop # "None" THEN [isNone |-> FALSE, val |-> t.loop_args]
    ELSE [isNone |-> TRUE, val |-> <<>>]

EmptyLoopResult ==
    [changed |-> FALSE, skipped |-> TRUE,
     skipped_reason |-> "No items in the list", results |-> <<>>]

\* run(): roledir, _get_loop_items() and the three-way branch on items
Run ==
    /\ pc = "run"
    /\ job_vars' = Put(job_vars, "roledir", "None")
    /\ LET got == GetLoopItems(task) IN
         IF ~got.isNone
           THEN IF Len(got.val) > 0
                  THEN /\ pc' = "_run_loop"
                       /\ items' = got.val
                       /\ UNCHANGED << res, variables, caller, nexec >>
                  ELSE /\ pc' = "return"
                       /\ res' = EmptyLoopResult
                       /\ UNCHANGED << items, variables, caller, nexec >>
           ELSE /\ pc' = "_execute"
                /\ caller' = "run"
                /\ variables' = job_vars'
                /\ nexec' = nexec + 1
                /\ UNCHANGED << items, res >>
    /\ UNCHANGED << task, idx, results, task_vars, squash_pass, vars_copy,
                    retries, delay, attempt, result, handler, connection,
                    time_left, async_result, ret, calls, sleeps, until_log,
                    checks, poll_sleeps >>
    /\ UNCHANGED << conditional, tmp_task >>
    /\ UNCHANGED role_vars

\* the items of its whose per-item conditional outcome in pass is true
RECURSIVE Passing(_, _)
Passing(its, pass) ==
    IF Len(its) = 0 THEN <<>>
    ELSE (IF pass[1] THEN <<its[1]>> ELSE <<>>)
           \o Passing(Tail(its), Tail(pass))

\* SquashItems without the test of the task's action
SquashItemsAnyAction(t, its, pass) ==
    IF Len(its) > 0 THEN << Join(Passing(its, pass)) >> ELSE its

\* SquashItems joining the passing items without the separator
SquashItemsNoComma(t, its, pass) ==
    IF Len(its) > 0 /\ t.action \in SquashActions
      THEN << [j \in 1..Len(Passing(its, pass)) |-> Passing(its, pass)[j][1]] >>
      ELSE its

\* SquashItems returning no item when no item passes
SquashItemsDropsEmpty(t, its, pass) ==
    IF Len(its) > 0 /\ t.action \in SquashActions
      THEN IF Passing(its, pass) = <<>> THEN <<>>
                                        ELSE << Join(Passing(its, pass)) >>
      ELSE its

\* _squash_items(items, variables) given the conditional's outcome per item
SquashItems(t, its, pass) ==
    IF Len(its) > 0 /\ t.action \in SquashActions
      THEN << Join(Passing(its, pass)) >>
      ELSE its

\* _run_loop(): results = [], task_vars = job_vars.copy(), _squash_items
RunLoopBegin ==
    /\ pc = "_run_loop"
    /\ \E pass \in [1..Len(items) -> BOOLEAN] :
         /\ items' = SquashItems(task, items, pass)
         /\ IF Len(items) > 0 /\ task.action \in SquashActions
              THEN /\ squash_pass' = pass
                   /\ task_vars' = Put(job_vars, "item", items[Len(items)])
              ELSE /\ squash_pass' = <<>>
                   /\ pass = [j \in 1..Len(items) |-> TRUE]
                   /\ task_vars' = job_vars
    /\ results' = <<>>
    /\ idx' = 1
    /\ pc' = "for_item"
    /\ UNCHANGED << task, job_vars, caller, res, variables, vars_copy,
                    retries, delay, attempt, result, handler, connection,
                    time_left, async_result, ret, calls, sleeps, until_log,
                    checks, poll_sleeps, nexec >>
    /\ UNCHANGED << conditional, tmp_task >>
    /\ UNCHANGED role_vars

\* CopyFailedResult without the failed marker
CopyFailedNoMarker == [msg |-> "parser error"]

\* dict(failed=True, msg=str(e)) for the AnsibleParserError of Task.copy
CopyFailedResult == [failed |-> TRUE, msg |-> "parser error"]

\* one pass of "for item in items" up to the call of _execute: bind item,
\* copy the task (which may raise AnsibleParserError), swap the copy in
LoopItem ==
    /\ pc = "for_item"
    /\ idx <= Len(items)
    /\ task_vars' = Put(task_vars, "item", items[idx])
    /\ \E copy_ok \in BOOLEAN :
         IF copy_ok
           THEN /\ tmp_task' = task
                /\ pc' = "_execute"
                /\ caller' = "_run_loop"
                /\ variables' = task_vars'
                /\ nexec' = nexec + 1
                /\ UNCHANGED << results, idx >>
           ELSE /\ results' = Append(results, CopyFailedResult)
                /\ idx' = idx + 1
                /\ UNCHANGED << tmp_task, pc, caller, variables, nexec >>
    /\ UNCHANGED << task, job_vars, items, squash_pass, res, vars_copy,
                    retries, delay, attempt, result, handler, connection,
                    time_left, async_result, ret, calls, sleeps, until_log,
                    checks, poll_sleeps >>
    /\ UNCHANGED conditional
    /\ UNCHANGED role_vars

\* the for loop of _run_loop is exhausted: return results; run() wraps them
LoopEnd ==
    /\ pc = "for_item"
    /\ idx > Len(items)
    /\ res' = [results |-> results]
    /\ pc' = "return"
    /\ UNCHANGED << task, job_vars, caller, items, idx, results, task_vars,
                    squash_pass, variables, vars_copy, retries, delay,
                    attempt, result, handler, connection, time_left,
                    async_result, ret, calls, sleeps, until_log, checks,
                    poll_sleeps, nexec >>
    /\ UNCHANGED << conditional, tmp_task >>
    /\ UNCHANGED role_vars

\* res with the changed key ensured
EnsureChanged(r) == IF "changed" \notin DOMAIN r THEN Put(r, "changed", FALSE) ELSE r

\* the end of run(): ensure changed, json.dumps(res), return
RunReturn ==
    /\ pc = "return"
    /\ ret' = [type |-> "json", value |-> EnsureChanged(res)]
    /\ pc' = "done"
    /\ UNCHANGED << task, job_vars, caller, items, idx, results, task_vars,
                    squash_pass, res, variables, vars_copy, retries, delay,
                    attempt, result, handler, connection, time_left,
                    async_result, calls, sleeps, until_log, checks,
                    poll_sleeps, nexec >>
    /\ UNCHANGED << conditional, tmp_task >>
    /\ UNCHANGED role_vars

\* ---------------------------------------------------------------- _execute

\* _get_connection(): the connection plugin is found and connected, or
\* AnsibleError is raised
ExecGetConnection ==
    /\ pc = "_execute"
    /\ \E found \in BOOLEAN :
         IF found
           THEN /\ connection' = connection + 1
                /\ pc' = "_get_action_handler"
                /\ UNCHANGED ret
           ELSE /\ Raise("AnsibleError", "the connection plugin was not found")
                /\ UNCHANGED connection
    /\ UNCHANGED << task, job_vars, caller, items, idx, results, task_vars,
                    squash_pass, res, variables, vars_copy, retries, delay,
                    attempt, result, handler, time_left, async_result,
                    calls, sleeps, until_log, checks, poll_sleeps, nexec >>
    /\ UNCHANGED << conditional, tmp_task >>
    /\ UNCHANGED role_vars

\* the handler name _get_action_handler() picks; in_loader tells whether the
\* task's action is in action_loader
HandlerName(t, in_loader) ==
    IF in_loader THEN t.action
    ELSE IF t.async = 0 THEN "normal" ELSE "async"

\* _get_action_handler(): a named handler with async != 0 reaches
\* raise AnsibleError(... % module_name) where module_name is not defined,
\* which raises NameError; a handler that is not found raises AnsibleError
ExecGetHandler ==
    /\ pc = "_get_action_handler"
    /\ \E in_loader \in BOOLEAN, found \in BOOLEAN :
         IF in_loader /\ task.async # 0
           THEN /\ Raise("NameError", "module_name")
                /\ UNCHANGED handler
           ELSE IF ~found
                  THEN /\ Raise("AnsibleError", "the handler was not found")
                       /\ UNCHANGED handler
                  ELSE /\ handler' = HandlerName(task, in_loader)
                       /\ pc' = "evaluate_conditional"
                       /\ UNCHANGED ret
    /\ UNCHANGED << task, job_vars, caller, items, idx, results, task_vars,
                    squash_pass, res, variables, vars_copy, retries, delay,
                    attempt, result, connection, time_left, async_result,
                    calls, sleeps, until_log, checks, poll_sleeps, nexec >>
    /\ UNCHANGED << conditional, tmp_task >>
    /\ UNCHANGED role_vars

SkippedResult ==
    [changed |-> FALSE, skipped |-> TRUE,
     skip_reason |-> "Conditional check failed"]

\* Retries without the minimum of one attempt
RetriesUnclamped(t) == t.retries

\* retries = self._task.retries; if retries <= 0: retries = 1
Retries(t) == IF t.retries <= 0 THEN 1 ELSE t.retries

\* delay = self._task.delay; if delay < 0: delay = 1
Delay(t) == IF t.delay < 0 THEN 1 ELSE t.delay

\* AfterConditional without the early return of the skipped result
AfterConditionalNoSkip(cond) == "attempt"

\* where _execute goes once the task's conditional gave cond
AfterConditional(cond) == IF ~cond THEN "_execute_return" ELSE "attempt"

\* Task.post_validate(variables) on the argument mapping: templates are
\* rendered
PostValidate(args, vs) ==
    [k \in DOMAIN args |->
       IF args[k] = OmitTemplate /\ "omit" \in DOMAIN vs THEN vs["omit"]
                                                          ELSE args[k]]

\* the arguments left once those equal to the omit token are filtered out,
\* when variables has an omit token
OmitFilter(args, vs) ==
    IF "omit" \in DOMAIN vs
      THEN [k \in { j \in DOMAIN args : args[j] # vs["omit"] } |-> args[k]]
      ELSE args

\* self._task after post_validate and the omit filter of _execute
Validated(t, vs) ==
    [t EXCEPT !.args = OmitFilter(PostValidate(t.args, vs), vs)]

\* evaluate_conditional(variables): false returns the skipped result, true
\* goes on to post_validate and the omit filter on self._task (the copy in
\* _run_loop, the task itself when run() calls _execute), then retries,
\* delay, vars_copy and the attempt loop
ExecConditional ==
    /\ pc = "evaluate_conditional"
    /\ \E cond \in BOOLEAN :
         /\ pc' = AfterConditional(cond)
         /\ conditional' = IF cond THEN "True" ELSE "False"
         /\ IF ~cond
              THEN /\ result' = SkippedResult
                   /\ UNCHANGED << retries, delay, vars_copy, attempt, task,
                                   tmp_task >>
              ELSE /\ IF caller = "_run_loop"
                        THEN /\ tmp_task' = Validated(tmp_task, variables)
                             /\ UNCHANGED task
                        ELSE /\ task' = Validated(task, variables)
                             /\ UNCHANGED tmp_task
                   /\ retries' = Retries(task)
                   /\ delay' = Delay(task)
                   /\ vars_copy' = variables
                   /\ result' = None
                   /\ attempt' = 0
    /\ UNCHANGED << job_vars, caller, items, idx, results, task_vars,
                    squash_pass, res, variables, handler, connection,
                    time_left, async_result, ret, calls, sleeps, until_log,
                    checks, poll_sleeps, nexec >>
    /\ UNCHANGED role_vars

\* what the handler named h may return from run()
HandlerOutputs(h) == IF h = "async" THEN AsyncHandlerResults ELSE HandlerResults

\* if attempt > 0: result['attempts'] = attempt + 1
MarkAttempts(r, att) == IF att > 0 THEN Put(r, "attempts", att + 1) ELSE r

\* HandlerInput handing the handler the scope copy of the guards
HandlerInputCopy(vs, vc) == vc

\* the task_vars the handler is run with: variables, not vars_copy
HandlerInput(vs, vc) == vs

\* the head of one attempt: the attempts mark goes on the result object of
\* the previous attempt (which vars_copy[register] also refers to), then
\* result is rebound to what the handler returns
Attempt ==
    /\ pc = "attempt"
    /\ attempt < retries
    /\ \E out \in HandlerOutputs(handler) :
         /\ calls' = Append(calls, [task_vars |-> HandlerInput(variables,
                                                               vars_copy),
                                    result |-> out])
         /\ result' = out
    /\ vars_copy' = IF attempt > 0 /\ task.register # "None"
                      THEN Put(vars_copy, task.register,
                               MarkAttempts(result, attempt))
                      ELSE vars_copy
    /\ pc' = IF task.async > 0 THEN "async" ELSE "exit_policy"
    /\ UNCHANGED << task, job_vars, caller, items, idx, results, task_vars,
                    squash_pass, res, variables, retries, delay, attempt,
                    handler, connection, time_left, async_result, ret,
                    sleeps, until_log, checks, poll_sleeps, nexec >>
    /\ UNCHANGED << conditional, tmp_task >>
    /\ UNCHANGED role_vars

\* the for loop over range(retries) is exhausted: return result
AttemptsExhausted ==
    /\ pc = "attempt"
    /\ attempt >= retries
    /\ pc' = "_execute_return"
    /\ UNCHANGED << task, job_vars, caller, items, idx, results, task_vars,
                    squash_pass, res, variables, vars_copy, retries, delay,
                    attempt, result, handler, connection, time_left,
                    async_result, ret, calls, sleeps, until_log, checks,
                    poll_sleeps, nexec >>
    /\ UNCHANGED << conditional, tmp_task >>
    /\ UNCHANGED role_vars

BadJsonResult ==
    [failed |-> TRUE, msg |-> "The async task did not return valid JSON"]

\* if self._task.async > 0: parse the handler's stdout; a ValueError returns
\* from _execute at once; with poll > 0 go on to _poll_async_result
AsyncParse ==
    /\ pc = "async"
    /\ LET parsed == JsonLoads(result.stdout) IN
         IF ~parsed.ok
           THEN /\ result' = BadJsonResult
                /\ pc' = "_execute_return"
           ELSE /\ result' = parsed.value
                /\ pc' = IF task.poll > 0 THEN "_poll_async_result"
                                          ELSE "exit_policy"
    /\ UNCHANGED << task, job_vars, caller, items, idx, results, task_vars,
                    squash_pass, res, variables, vars_copy, retries, delay,
                    attempt, handler, connection, time_left, async_result,
                    ret, calls, sleeps, until_log, checks, poll_sleeps,
                    nexec >>
    /\ UNCHANGED << conditional, tmp_task >>
    /\ UNCHANGED role_vars

\* ------------------------------------------------------- _poll_async_result

NoJobIdResult ==
    [failed |-> TRUE, msg |-> "No job id was returned by the async task"]

PollTimeoutResult ==
    [failed |-> TRUE,
     msg |-> "async task did not complete within the requested time"]

\* async_jid = result.get('ansible_job_id'); without one return the failure,
\* else time_left = self._task.async
PollBegin ==
    /\ pc = "_poll_async_result"
    /\ checks' = <<>>
    /\ poll_sleeps' = <<>>
    /\ IF "ansible_job_id" \notin DOMAIN result
         THEN /\ result' = NoJobIdResult
              /\ pc' = "exit_policy"
              /\ UNCHANGED time_left
         ELSE /\ time_left' = task.async
              /\ pc' = "while_time_left"
              /\ UNCHANGED result
    /\ UNCHANGED << task, job_vars, caller, items, idx, results, task_vars,
                    squash_pass, res, variables, vars_copy, retries, delay,
                    attempt, handler, connection, async_result, ret, calls,
                    sleeps, until_log, nexec >>
    /\ UNCHANGED << conditional, tmp_task >>
    /\ UNCHANGED role_vars

\* int(async_result.get('finished', 0)) == 1
Finished(st) == Get(st, "finished", 0) = 1

\* PollStops that looks at finished only
PollStopsWhenFinished(st) == Finished(st)

\* the break condition of the polling loop
PollStops(st) ==
    Finished(st) \/ "failed" \in DOMAIN st \/ "skipped" \in DOMAIN st

\* one pass of "while time_left > 0": sleep, status check, break or
\* time_left -= poll and the loop test
PollIter ==
    /\ pc = "while_time_left"
    /\ time_left > 0
    /\ poll_sleeps' = Append(poll_sleeps, task.poll)
    /\ \E st \in StatusResults :
         /\ async_result' = st
         /\ checks' = Append(checks, st)
         /\ IF PollStops(st)
              THEN /\ pc' = "poll_end"
                   /\ UNCHANGED time_left
              ELSE /\ time_left' = time_left - task.poll
                   /\ pc' = IF time_left' > 0 THEN "while_time_left"
                                              ELSE "poll_end"
    /\ UNCHANGED << task, job_vars, caller, items, idx, results, task_vars,
                    squash_pass, res, variables, vars_copy, retries, delay,
                    attempt, result, handler, connection, ret, calls,
                    sleeps, until_log, nexec >>
    /\ UNCHANGED << conditional, tmp_task >>
    /\ UNCHANGED role_vars

\* PollOutcome without the test for an unfinished last status
PollOutcomeVerbatim(st) == st

\* what _poll_async_result returns after its loop
PollOutcome(st) == IF ~Finished(st) THEN PollTimeoutResult ELSE st

\* after the loop: the timeout failure unless the last status is finished
PollEnd ==
    /\ pc = "poll_end"
    /\ result' = PollOutcome(async_result)
    /\ pc' = "exit_policy"
    /\ UNCHANGED << task, job_vars, caller, items, idx, results, task_vars,
                    squash_pass, res, variables, vars_copy, retries, delay,
                    attempt, handler, connection, time_left, async_result,
                    ret, calls, sleeps, until_log, checks, poll_sleeps,
                    nexec >>
    /\ UNCHANGED << conditional, tmp_task >>
    /\ UNCHANGED role_vars

\* ------------------------------------------ the exit policy of one attempt

\* WhenOverwrites that records the failed_when guard without overwriting
\* failed
WhenKeepsFailed(t, r, cw, fw) ==
    LET r1 == IF t.changed_when THEN Put(r, "changed", cw) ELSE r
    IN  IF t.failed_when THEN Put(r1, "failed_when_result", fw) ELSE r1

\* the result after the changed_when / failed_when overwrites
WhenOverwrites(t, r, cw, fw) ==
    LET r1 == IF t.changed_when THEN Put(r, "changed", cw) ELSE r
    IN  IF t.failed_when
          THEN Put(Put(r1, "failed_when_result", fw), "failed", fw)
          ELSE r1

\* ExitPolicy where a true until guard does not end the loop
ExitPolicyUntilGoesOn(t, r, u, cw, fw) ==
    IF t.until
      THEN [result |-> r, brk |-> FALSE]
    ELSE IF (t.changed_when \/ t.failed_when) /\ "skipped" \notin DOMAIN r
      THEN [result |-> WhenOverwrites(t, r, cw, fw),
            brk |-> t.failed_when /\ fw]
    ELSE IF "failed" \notin DOMAIN r /\ Get(r, "rc", 0) = 0
      THEN [result |-> r, brk |-> TRUE]
    ELSE [result |-> r, brk |-> FALSE]

\* ExitPolicy where changed_when / failed_when come ahead of until
ExitPolicyWhenFirst(t, r, u, cw, fw) ==
    IF (t.changed_when \/ t.failed_when) /\ "skipped" \notin DOMAIN r
      THEN [result |-> WhenOverwrites(t, r, cw, fw),
            brk |-> t.failed_when /\ fw]
    ELSE IF t.until
      THEN [result |-> r, brk |-> u]
    ELSE IF "failed" \notin DOMAIN r /\ Get(r, "rc", 0) = 0
      THEN [result |-> r, brk |-> TRUE]
    ELSE [result |-> r, brk |-> FALSE]

\* ExitPolicy where a result left unfailed by the changed_when / failed_when
\* branch goes on to the test of the last branch
ExitPolicyWhenThenDefault(t, r, u, cw, fw) ==
    IF t.until
      THEN [result |-> r, brk |-> u]
    ELSE IF (t.changed_when \/ t.failed_when) /\ "skipped" \notin DOMAIN r
      THEN [result |-> WhenOverwrites(t, r, cw, fw),
            brk |-> \/ t.failed_when /\ fw
                    \/ /\ ~Get(WhenOverwrites(t, r, cw, fw), "failed", FALSE)
                       /\ Get(r, "rc", 0) = 0]
    ELSE IF "failed" \notin DOMAIN r /\ Get(r, "rc", 0) = 0
      THEN [result |-> r, brk |-> TRUE]
    ELSE [result |-> r, brk |-> FALSE]

\* ExitPolicy whose last branch does not look at rc
ExitPolicyIgnoresRc(t, r, u, cw, fw) ==
    IF t.until
      THEN [result |-> r, brk |-> u]
    ELSE IF (t.changed_when \/ t.failed_when) /\ "skipped" \notin DOMAIN r
      THEN [result |-> WhenOverwrites(t, r, cw, fw),
            brk |-> t.failed_when /\ fw]
    ELSE IF "failed" \notin DOMAIN r
      THEN [result |-> r, brk |-> TRUE]
    ELSE [result |-> r, brk |-> FALSE]

\* the if / elif / elif after the handler ran: the result it leaves and
\* whether it breaks out of the attempt loop; u, cw and fw are the outcomes
\* of the until, changed_when and failed_when guards
ExitPolicy(t, r, u, cw, fw) ==
    IF t.until
      THEN [result |-> r, brk |-> u]
    ELSE IF (t.changed_when \/ t.failed_when) /\ "skipped" \notin DOMAIN r
      THEN [result |-> WhenOverwrites(t, r, cw, fw),
            brk |-> t.failed_when /\ fw]
    ELSE IF "failed" \notin DOMAIN r /\ Get(r, "rc", 0) = 0
      THEN [result |-> r, brk |-> TRUE]
    ELSE [result |-> r, brk |-> FALSE]

\* from the register binding to the end of the attempt: bind the result in
\* vars_copy, apply the exit policy, and without a break sleep if attempts
\* remain
AttemptExit ==
    /\ pc = "exit_policy"
    /\ \E u \in BOOLEAN, cw \in BOOLEAN, fw \in BOOLEAN :
         LET out == ExitPolicy(task, result, u, cw, fw) IN
           /\ result' = out.result
           /\ until_log' = IF task.until THEN Append(until_log, u)
                                         ELSE until_log
           /\ IF out.brk
                THEN /\ pc' = "_execute_return"
                     /\ UNCHANGED << attempt, sleeps >>
                ELSE /\ pc' = "attempt"
                     /\ attempt' = attempt + 1
                     /\ sleeps' = IF attempt < retries - 1
                                    THEN Append(sleeps, delay)
                                    ELSE sleeps
    /\ vars_copy' = IF task.register # "None"
                      THEN Put(vars_copy, task.register, result')
                      ELSE vars_copy
    /\ UNCHANGED << task, job_vars, caller, items, idx, results, task_vars,
                    squash_pass, res, variables, retries, delay, handler,
                    connection, time_left, async_result, ret, calls, checks,
                    poll_sleeps, nexec >>
    /\ UNCHANGED << conditional, tmp_task >>
    /\ UNCHANGED role_vars

\* _execute returns result: to run(), which keeps it as res, or to
\* _run_loop, which sets res['item'] = item, appends it and moves on; the
\* locals of _execute go away
ExecuteReturn ==
    /\ pc = "_execute_return"
    /\ IF caller = "run"
         THEN /\ res' = result
              /\ pc' = "return"
              /\ UNCHANGED << results, idx >>
         ELSE /\ results' = Append(results, Put(result, "item", items[idx]))
              /\ idx' = idx + 1
              /\ pc' = "for_item"
              /\ UNCHANGED res
    /\ variables' = [none |-> TRUE]
    /\ vars_copy' = [none |-> TRUE]
    /\ retries' = 0
    /\ delay' = 0
    /\ attempt' = 0
    /\ result' = None
    /\ time_left' = 0
    /\ async_result' = None
    /\ calls' = <<>>
    /\ sleeps' = <<>>
    /\ until_log' = <<>>
    /\ checks' = <<>>
    /\ poll_sleeps' = <<>>
    /\ conditional' = "None"
    /\ UNCHANGED << task, tmp_task, job_vars, caller, items, task_vars,
                    squash_pass, handler, connection, ret, nexec >>
    /\ UNCHANGED role_vars

ExecNext ==
    \/ Run
    \/ RunLoopBegin
    \/ LoopItem
    \/ LoopEnd
    \/ RunReturn
    \/ ExecGetConnection
    \/ ExecGetHandler
    \/ ExecConditional
    \/ Attempt
    \/ AttemptsExhausted
    \/ AsyncParse
    \/ PollBegin
    \/ PollIter
    \/ PollEnd
    \/ AttemptExit
    \/ ExecuteReturn

vars == << exec_vars, role_vars >>

\* one task executor running one task
Init == ExecInit /\ PlayInit

Next == ExecNext

Spec == Init /\ [][Next]_vars

\* one play loading its roles and compiling
InitPlay == ExecIdle /\ PlayInit

SpecPlay == InitPlay /\ [][PlayNext]_vars

\* one task executor running an async task that is polled; the interpreter
\* goes on executing while a statement is left
InitPoll == PollInit /\ PlayInit

SpecPollFair == InitPoll /\ [][ExecNext]_vars /\ WF_vars(ExecNext)

\* one task executor running a task whose arguments may be omitted
InitArgs == ArgsInit /\ PlayInit

SpecArgs == InitArgs /\ [][ExecNext]_vars

\* every Role.load in progress keeps running
SpecPlayFair ==
    /\ InitPlay
    /\ [][PlayNext]_vars
    /\ WF_vars(LoadLookup(1)) /\ WF_vars(LoadDep(1)) /\ WF_vars(LoadReturn(1))

\* the loading of roles by every caller, one step of one caller at a time
LoadNext ==
    \/ \E c \in threads : PlayLoadRole(c)
    \/ \E c \in threads : LoadLookup(c)
    \/ \E c \in threads : LoadDep(c)
    \/ \E c \in threads : LoadReturn(c)

\* two Plays loading roles concurrently
InitConc == ExecIdle /\ ConcInit

SpecConc == InitConc /\ [][LoadNext]_vars

\* one Play loading roles from a fixed layout
InitRoles == ExecIdle /\ RolesInit

\* roles are loaded and the execution layer marks them
RolesNext ==
    \/ \E c \in threads : PlayLoadRole(c)
    \/ \E c \in threads : LoadLookup(c)
    \/ \E c \in threads : LoadDep(c)
    \/ \E c \in threads : LoadReturn(c)
    \/ MarkRun

SpecRoles == InitRoles /\ [][RolesNext]_vars

\* ================================================================= claims

Max(a, b) == IF a >= b THEN a ELSE b

\* the position of the first TRUE in a sequence of booleans, 0 if none
FirstTrue(log) ==
    IF \E i \in 1..Len(log) : log[i]
      THEN CHOOSE i \in 1..Len(log) : log[i] /\ \A j \in 1..(i-1) : ~log[j]
      ELSE 0

\* C1: when the task's conditional evaluates false in _execute, _execute is
\* at its return with a result that has changed = false and skipped = true,
\* the handler's run() was invoked zero times and the attempt loop was not
\* entered (no attempt, no sleep).
C1_SkipWithoutHandler ==
    conditional = "False" =>
        /\ pc = "_execute_return"
        /\ "changed" \in DOMAIN result /\ result["changed"] = FALSE
        /\ "skipped" \in DOMAIN result /\ result["skipped"] = TRUE
        /\ calls = <<>>
        /\ attempt = 0
        /\ sleeps = <<>>

C1_Witness ==
    pc = "_execute_return" /\ conditional = "False" /\ handler # "None"

\* every handler invocation of the current _execute returned failed = true
AllCallsFailed ==
    \A i \in 1..Len(calls) :
        /\ "failed" \in DOMAIN calls[i].result
        /\ calls[i].result["failed"] = TRUE

\* the task is not async and has no until, changed_when or failed_when guard
PlainTask ==
    /\ task.async = 0
    /\ ~task.until /\ ~task.changed_when /\ ~task.failed_when

\* C2: when _execute returns for a non-skipped, non-async task with no
\* until/changed_when/failed_when guard whose handler returned failed = true
\* on every attempt, the handler was invoked exactly max(1, retries) times
\* and the returned result has failed = true.
C2_FailingTaskUsesAllRetries ==
    (pc = "_execute_return" /\ conditional = "True" /\ PlainTask
       /\ AllCallsFailed) =>
        /\ Len(calls) = Max(1, task.retries)
        /\ "failed" \in DOMAIN result /\ result["failed"] = TRUE

C2_Witness ==
    /\ pc = "_execute_return" /\ conditional = "True" /\ PlainTask
    /\ AllCallsFailed
    /\ task.retries >= 2 /\ Len(calls) = task.retries

\* C3: when _execute returns after N >= 2 handler invocations, the returned
\* result carries attempts = N.
C3_AttemptsRecorded ==
    (pc = "_execute_return" /\ Len(calls) >= 2) =>
        /\ "attempts" \in DOMAIN result
        /\ result["attempts"] = Len(calls)

\* the result of the k-th attempt of the current _execute as it stands
\* before the exit policy: the handler's result, the parsed payload of an
\* async submission, or the outcome of polling it
AttemptResult(k) ==
    IF task.async = 0 THEN calls[k].result
    ELSE LET payload == JsonLoads(calls[k].result.stdout).value IN
           IF task.poll = 0 THEN payload
           ELSE IF "ansible_job_id" \notin DOMAIN payload THEN NoJobIdResult
           ELSE PollOutcome(checks[Len(checks)])

\* C4 as stated: when _execute returns for a task with an until guard that
\* first evaluated true after the k-th handler invocation, the handler was
\* invoked exactly k times, the returned result is the k-th handler result
\* and no sleep followed the k-th attempt.
C4_Original ==
    (pc = "_execute_return" /\ task.until /\ FirstTrue(until_log) > 0) =>
        LET k == FirstTrue(until_log) IN
          /\ Len(calls) = k
          /\ result = calls[k].result
          /\ Len(sleeps) = k - 1

\* C4 amended: as C4_Original, with the returned result being the result of
\* the k-th attempt: the k-th handler result for a task that is not async,
\* and for an async task the parsed submission payload of the k-th attempt
\* or, with a poll interval, the outcome of polling it.
C4_UntilStopsAtFirstTrue ==
    (pc = "_execute_return" /\ task.until /\ FirstTrue(until_log) > 0) =>
        LET k == FirstTrue(until_log) IN
          /\ k = Len(until_log)
          /\ Len(calls) = k
          /\ task.async = 0 => result = calls[k].result
          /\ result = AttemptResult(k)
          /\ Len(sleeps) = k - 1

C4_Witness ==
    /\ pc = "_execute_return" /\ task.until
    /\ until_log = <<FALSE, TRUE>>
    /\ Len(calls) = 2

\* the statements of _execute and of what it calls
ExecutePcs ==
    { "_execute", "_get_action_handler", "evaluate_conditional", "attempt",
      "async", "_poll_async_result", "while_time_left", "poll_end",
      "exit_policy", "_execute_return" }

\* a loop over a non-empty item sequence with an action that is not squashed
PlainLoop ==
    /\ task.loop # "None"
    /\ task.action \notin SquashActions
    /\ Len(task.loop_args) > 0

C5_LoopState ==
    PlainLoop =>
        /\ pc \in ExecutePcs =>
             /\ idx = Len(results) + 1
             /\ variables["item"] = task.loop_args[idx]
             /\ \A i \in 1..Len(calls) :
                  calls[i].task_vars["item"] = task.loop_args[idx]
        /\ \A j \in 1..Len(results) :
             \/ results[j] = CopyFailedResult
             \/ /\ "item" \in DOMAIN results[j]
                /\ results[j]["item"] = task.loop_args[j]
        /\ (pc = "done" /\ ret.type = "json") =>
             /\ Len(results) = Len(task.loop_args)
             /\ "results" \in DOMAIN ret.value
             /\ ret.value["results"] = results
        /\ (pc = "done" /\ ret.type # "json") => ret.type \in {"dict", "raised"}

C5_LoopStep ==
    (PlainLoop /\ pc = "_execute_return") =>
        results' = Append(results, Put(result, "item", task.loop_args[idx]))

SquashedLoopAllPass ==
    /\ task.loop # "None"
    /\ task.action \in SquashActions
    /\ Len(task.loop_args) > 0
    /\ pc \notin {"run", "_run_loop"}
    /\ squash_pass = [j \in 1..Len(task.loop_args) |-> TRUE]

\* C6 as stated: for a squash-eligible action and a non-empty item sequence
\* whose items all pass the per-item guard, the task is executed exactly
\* once, with item bound to the comma-joined string of all items in order.
C6_Original ==
    (pc = "done" /\ SquashedLoopAllPass) =>
        /\ nexec = 1
        /\ task_vars["item"] = Join(task.loop_args)

\* C6 amended: for a squash-eligible action and a non-empty item sequence
\* whose items all pass the per-item guard, the loop runs over the single
\* comma-joined string of all items in order and the task is executed at
\* most once, with item bound to that string: exactly once unless the
\* task-copy step raises a parser error, in which case it is not executed
\* and the single sub-result is the failed one.
C6_SquashedExecutesOnce ==
    SquashedLoopAllPass =>
        /\ items = << Join(task.loop_args) >>
        /\ nexec <= 1
        /\ pc \in ExecutePcs =>
             /\ nexec = 1
             /\ variables["item"] = Join(task.loop_args)
             /\ \A i \in 1..Len(calls) :
                  calls[i].task_vars["item"] = Join(task.loop_args)
        /\ (pc = "done" /\ ret.type = "json") =>
             /\ Len(results) = 1
             /\ \/ nexec = 1 /\ results[1]["item"] = Join(task.loop_args)
                \/ nexec = 0 /\ results = << CopyFailedResult >>

C6_Witness ==
    /\ pc = "done" /\ SquashedLoopAllPass /\ ret.type = "json"
    /\ Len(task.loop_args) = 2
    /\ nexec = 1
    /\ results[1]["item"] = <<"a", ",", "b">>

\* the parsed submission payload of the latest attempt holds a job id
SubmissionHasJobId ==
    /\ Len(calls) > 0
    /\ "stdout" \in DOMAIN calls[Len(calls)].result
    /\ JsonLoads(calls[Len(calls)].result.stdout).ok
    /\ "ansible_job_id" \in
          DOMAIN JsonLoads(calls[Len(calls)].result.stdout).value

\* the position of the first status check reporting finished = 1, 0 if none
FirstFinished(sts) == FirstTrue([i \in 1..Len(sts) |-> Finished(sts[i])])

\* C7: when _poll_async_result has returned for an async task with a poll
\* interval whose submission held a job id: if a status check reported
\* finished = 1 the returned result is that status result (the first such),
\* and otherwise it is failed = true with the did-not-complete message.
C7_PollReturnsFinishedOrTimeout ==
    (pc = "exit_policy" /\ task.async > 0 /\ task.poll > 0
       /\ SubmissionHasJobId) =>
        /\ Len(checks) > 0
        /\ IF FirstFinished(checks) > 0
             THEN result = checks[FirstFinished(checks)]
             ELSE /\ Get(result, "failed", FALSE) = TRUE
                  /\ Get(result, "msg", "") =
                       "async task did not complete within the requested time"

C7_Witness ==
    /\ pc = "exit_policy" /\ task.async > 0 /\ task.poll > 0
    /\ SubmissionHasJobId
    /\ checks = << [finished |-> 0], [finished |-> 1, changed |-> TRUE] >>
    /\ result = [finished |-> 1, changed |-> TRUE]

\* ------------------------------------------- claims on errors and resources

\* C14: when run() has ended it has returned a result to its caller, never
\* let a raised error through, and a result converted from an error has
\* failed = true and carries the error's message.
C14_ErrorsBecomeFailedResults ==
    pc = "done" =>
        /\ ret.type # "raised"
        /\ ret.type = "dict" =>
             /\ Get(ret.value, "failed", FALSE) = TRUE
             /\ "msg" \in DOMAIN ret.value

\* C15: every result run() returns, on every exit path, has a changed key.
C15_ChangedAlwaysPresent ==
    (pc = "done" /\ ret.type \in {"json", "dict"}) =>
        "changed" \in DOMAIN ret.value

\* the connections this invocation obtained and has not closed: no
\* statement of TaskExecutor closes a connection
OpenConnections == connection

\* C16: when run() has ended, every connection the invocation obtained and
\* connected has been closed.
C16_ConnectionsClosed ==
    pc = "done" => OpenConnections = 0

\* the messages of the transport/async protocol errors
ProtocolErrors ==
    { BadJsonResult.msg, NoJobIdResult.msg, PollTimeoutResult.msg }

\* C17: the attempt loop of an async task never goes on to a further
\* handler invocation after an attempt whose result is a transport/async
\* protocol error.
C17_ProtocolErrorNotRetried ==
    (pc = "attempt" /\ attempt < retries /\ task.async > 0) =>
        Get(result, "msg", "") \notin ProtocolErrors

\* a handler result without failed key whose rc is zero or absent
Succeeded(r) == "failed" \notin DOMAIN r /\ Get(r, "rc", 0) = 0

\* C22: when _execute returns for a non-async task with no until,
\* changed_when or failed_when guard, no handler result before the last one
\* is without failed key and with rc zero or absent; if the last one is, it
\* is the returned result and no sleep followed it, and if it is not, all
\* max(1, retries) attempts were made. A first result of that kind means
\* exactly one handler invocation and no sleep, whatever the retry count.
C22_StopsAtFirstSuccess ==
    (pc = "_execute_return" /\ conditional = "True" /\ PlainTask) =>
        /\ Len(calls) >= 1
        /\ \A i \in 1..(Len(calls) - 1) : ~Succeeded(calls[i].result)
        /\ Len(sleeps) = Len(calls) - 1
        /\ result = calls[Len(calls)].result
        /\ ~Succeeded(calls[Len(calls)].result) =>
              Len(calls) = Max(1, task.retries)
        /\ Succeeded(calls[1].result) => (Len(calls) = 1 /\ sleeps = <<>>)

C22_Witness ==
    /\ pc = "_execute_return" /\ conditional = "True" /\ PlainTask
    /\ task.retries = MaxRetries
    /\ calls[1].result = [changed |-> TRUE, rc |-> 0]
    /\ Len(calls) = 1 /\ sleeps = <<>>

\* the exit policy is about to be applied to the result of an attempt that
\* is not a skip, for a task without until that sets failed_when
FailedWhenApplies ==
    /\ pc = "exit_policy"
    /\ ~task.until /\ task.failed_when
    /\ "skipped" \notin DOMAIN result

\* the keys the changed_when / failed_when branch writes
WhenKeys == {"changed", "failed", "failed_when_result"}

C24_Step ==
    FailedWhenApplies =>
        /\ {"failed", "failed_when_result"} \subseteq DOMAIN result'
        /\ result'["failed_when_result"] \in BOOLEAN
        /\ result'["failed"] = result'["failed_when_result"]
        /\ IF task.changed_when
             THEN "changed" \in DOMAIN result'
                    /\ result'["changed"] \in BOOLEAN
             ELSE \/ "changed" \notin DOMAIN result \cup DOMAIN result'
                  \/ /\ "changed" \in DOMAIN result \cap DOMAIN result'
                     /\ result'["changed"] = result["changed"]
        /\ \A k \in (DOMAIN result) \ WhenKeys :
             k \in DOMAIN result' /\ result'[k] = result[k]
        /\ IF result'["failed"]
             THEN pc' = "_execute_return" /\ calls' = calls
             ELSE pc' = "attempt" /\ attempt' = attempt + 1

\* C24: for a task without until that sets failed_when, the exit policy of
\* every attempt whose result is not a skip sets the result's failed field
\* to the value of the failed_when guard (recorded as failed_when_result)
\* and, when changed_when is set, changed to that guard's value, whatever the
\* handler reported; when the guard is true _execute returns without a
\* further handler invocation.
C24_FailedWhenOverwrites == [][C24_Step]_vars

C24_Witness ==
    /\ pc = "_execute_return" /\ conditional = "True"
    /\ ~task.until /\ task.failed_when /\ task.changed_when
    /\ task.async = 0 /\ task.retries = MaxRetries
    /\ Len(calls) = 1
    /\ calls[1].result = [changed |-> TRUE, rc |-> 0]
    /\ Get(result, "failed", FALSE) = TRUE
    /\ Get(result, "changed", TRUE) = FALSE

\* _execute returns for a non-async task without until that sets
\* changed_when and/or failed_when, none of whose handler results was a skip
WhenTaskReturns ==
    /\ pc = "_execute_return" /\ conditional = "True"
    /\ task.async = 0 /\ ~task.until
    /\ task.changed_when \/ task.failed_when
    /\ \A i \in 1..Len(calls) : "skipped" \notin DOMAIN calls[i].result

\* failed_when evaluated true on the attempt whose result is returned
FailedWhenTrue ==
    task.failed_when /\ Get(result, "failed_when_result", FALSE) = TRUE

\* C32: when _execute returns for a non-async task without until that sets
\* changed_when and/or failed_when and whose results were not skips, either
\* failed_when evaluated true on the last attempt made, or the handler was
\* invoked exactly max(1, retries) times, whatever it returned; in both
\* cases a sleep separates consecutive attempts.
C32_OnlyFailedWhenEndsEarly ==
    WhenTaskReturns =>
        /\ Len(calls) >= 1
        /\ Len(calls) <= Max(1, task.retries)
        /\ Len(calls) < Max(1, task.retries) => FailedWhenTrue
        /\ ~FailedWhenTrue => Len(calls) = Max(1, task.retries)
        /\ Len(sleeps) = Len(calls) - 1

C32_Witness ==
    /\ WhenTaskReturns
    /\ task.changed_when /\ task.failed_when
    /\ task.retries = MaxRetries
    /\ Len(calls) = MaxRetries
    /\ \A i \in 1..Len(calls) : calls[i].result = [changed |-> TRUE, rc |-> 0]
    /\ Get(result, "failed_when_result", TRUE) = FALSE
    /\ Len(sleeps) = MaxRetries - 1

\* the exit policy is about to be applied for a task that sets until
\* together with changed_when and/or failed_when
UntilWithWhen ==
    /\ pc = "exit_policy"
    /\ task.until /\ (task.changed_when \/ task.failed_when)

C25_Step ==
    UntilWithWhen =>
        /\ result' = result
        /\ Len(until_log') = Len(until_log) + 1
        /\ IF until_log'[Len(until_log')]
             THEN pc' = "_execute_return"
             ELSE pc' = "attempt" /\ attempt' = attempt + 1

\* C25: for a task that sets until together with changed_when and/or
\* failed_when, the exit policy of every attempt evaluates until only: the
\* result is left as it is (changed_when and failed_when alter nothing), the
\* loop ends when until is true and goes on when it is false, also after a
\* result without failure marker.
C25_UntilTakesPriority == [][C25_Step]_vars

C25_Witness ==
    /\ pc = "attempt" /\ attempt = 1 /\ retries = MaxRetries
    /\ task.until /\ task.changed_when /\ task.failed_when
    /\ task.async = 0
    /\ until_log = << FALSE >>
    /\ calls = << [task_vars |-> variables,
                   result |-> [changed |-> TRUE, rc |-> 0]] >>
    /\ result = [changed |-> TRUE, rc |-> 0]

\* C26: for a task with a register variable, no scope the handler is run
\* with holds a binding of that variable, every handler invocation of one
\* execution gets the same scope, and the binding is in none of the scopes
\* that outlive an execution (job_vars, the task_vars of the loop): it is
\* written to vars_copy only.
C26_RegisterNotVisibleToHandler ==
    task.register # "None" =>
        /\ \A i \in 1..Len(calls) :
             /\ task.register \notin DOMAIN calls[i].task_vars
             /\ calls[i].task_vars = calls[1].task_vars
        /\ task.register \notin DOMAIN variables
        /\ task.register \notin DOMAIN task_vars
        /\ task.register \notin DOMAIN job_vars

C26_Witness ==
    /\ task.register = "reg"
    /\ caller = "_run_loop" /\ idx = 2 /\ Len(results) = 1
    /\ "item" \in DOMAIN results[1]
    /\ pc = "exit_policy"
    /\ Len(calls) = 2
    /\ "reg" \in DOMAIN vars_copy

\* ceil(a / p)
CeilDiv(a, p) == (a + p - 1) \div p

\* a status that reports finished = 1, a failed marker or a skipped marker
StatusEndsPolling(st) ==
    \/ Get(st, "finished", 0) = 1
    \/ "failed" \in DOMAIN st
    \/ "skipped" \in DOMAIN st

\* _poll_async_result is running or has just returned
Polled == task.async > 0 /\ task.poll > 0
            /\ pc \in {"while_time_left", "poll_end", "exit_policy"}

C27_PollState ==
    Polled =>
        /\ Len(poll_sleeps) = Len(checks)
        /\ \A i \in 1..Len(poll_sleeps) : poll_sleeps[i] = task.poll
        /\ Len(checks) <= CeilDiv(task.async, task.poll)
        /\ \A i \in 1..(Len(checks) - 1) : ~StatusEndsPolling(checks[i])
        /\ (pc = "while_time_left" /\ Len(checks) > 0) =>
             ~StatusEndsPolling(checks[Len(checks)])
        /\ (pc \in {"poll_end", "exit_policy"} /\ SubmissionHasJobId) =>
             /\ Len(checks) >= 1
             /\ \/ StatusEndsPolling(checks[Len(checks)])
                \/ Len(checks) = CeilDiv(task.async, task.poll)
        /\ (pc = "exit_policy" /\ ~SubmissionHasJobId) =>
             /\ checks = <<>> /\ poll_sleeps = <<>>
             /\ Get(result, "failed", FALSE) = TRUE

\* C27: for async timeout A > 0 and poll interval P > 0, _poll_async_result
\* always returns; without a job id it returns the failure after no sleep
\* and no status check, and otherwise it makes at least one and at most
\* ceil(A / P) status checks, each after one sleep of P, none after the
\* first status that reports finished = 1, a failed marker or a skipped
\* marker.
C27_PollTerminates ==
    /\ []C27_PollState
    /\ (pc = "_poll_async_result") ~> (pc = "exit_policy")

C27_Witness ==
    /\ Polled /\ pc = "exit_policy" /\ SubmissionHasJobId
    /\ CeilDiv(task.async, task.poll) >= 2
    /\ Len(checks) = CeilDiv(task.async, task.poll)
    /\ \A i \in 1..Len(checks) : ~StatusEndsPolling(checks[i])
    /\ poll_sleeps = [i \in 1..Len(checks) |-> task.poll]

\* _run_loop is past _squash_items, looping over a non-empty item sequence
InLoop ==
    /\ task.loop # "None"
    /\ Len(task.loop_args) > 0
    /\ pc \notin {"run", "_run_loop"}

\* the sub-result of an item whose task copy raised: failed = true and the
\* error's message, and no item
IsCopyFailure(r) ==
    /\ Get(r, "failed", FALSE) = TRUE
    /\ Get(r, "msg", "") = "parser error"
    /\ "item" \notin DOMAIN r

\* the positions of results holding the sub-result of an execution
ExecutedPositions == { j \in 1..Len(results) : ~IsCopyFailure(results[j]) }

C21_LoopState ==
    InLoop =>
        /\ pc = "for_item" => Len(results) = idx - 1
        /\ \A j \in ExecutedPositions :
             Get(results[j], "item", <<"?">>) = items[j]
        /\ pc = "for_item" => nexec = Cardinality(ExecutedPositions)
        /\ (pc = "done" /\ ret.type = "json") =>
             /\ Len(results) = Len(items)
             /\ task.action \notin SquashActions =>
                  Len(results) = Len(task.loop_args)
             /\ nexec = Cardinality(ExecutedPositions)
             /\ Get(ret.value, "results", <<>>) = results

\* the step of the for loop on which the task copy raises
CopyRaises == pc = "for_item" /\ pc' = "for_item"

C21_CopyStep ==
    (InLoop /\ CopyRaises) =>
        /\ Len(results') = Len(results) + 1
        /\ \A j \in 1..Len(results) : results'[j] = results[j]
        /\ IsCopyFailure(results'[idx])
        /\ idx' = idx + 1
        /\ nexec' = nexec

SquashedLoop ==
    /\ task.loop # "None"
    /\ task.action \in SquashActions
    /\ Len(task.loop_args) > 0
    /\ pc \notin {"run", "_run_loop"}

\* no item passed the per-item guard of _squash_items
NonePassed == \A j \in 1..Len(squash_pass) : ~squash_pass[j]

\* C30 as stated: for a squash-eligible action and a non-empty item
\* sequence, when _run_loop has returned its list the task was executed
\* exactly once and the list has exactly one sub-result, whatever number of
\* items pass the per-item guard.
C30_Original ==
    (pc = "done" /\ SquashedLoop /\ ret.type = "json") =>
        /\ nexec = 1
        /\ Len(Get(ret.value, "results", <<>>)) = 1

\* C30 amended: for a squash-eligible action and a non-empty item sequence,
\* whatever number of items pass the per-item guard the loop has exactly one
\* item, the empty string when no item passes; the task is executed at most
\* once, with item bound to it, and exactly once unless the task-copy step
\* raises a parser error; a results list that is returned has exactly one
\* sub-result.
C30_SquashedLoopHasOneItem ==
    SquashedLoop =>
        /\ Len(items) = 1
        /\ NonePassed => items[1] = <<>>
        /\ nexec <= 1
        /\ pc \in ExecutePcs =>
             /\ nexec = 1
             /\ Get(variables, "item", <<"?">>) = items[1]
        /\ (pc = "done" /\ ret.type = "json") =>
             /\ Len(results) = 1
             /\ Get(ret.value, "results", <<>>) = results
             /\ \/ nexec = 1 /\ Get(results[1], "item", <<"?">>) = items[1]
                \/ nexec = 0 /\ IsCopyFailure(results[1])

C30_Witness ==
    /\ pc = "done" /\ SquashedLoop /\ ret.type = "json"
    /\ Len(task.loop_args) = 2
    /\ NonePassed
    /\ nexec = 1
    /\ Get(results[1], "item", <<"?">>) = <<>>

\* C20: no step of run() modifies the compiled Task handed to the executor,
\* neither on the direct path nor on the loop path.
C20_SharedTaskNotModified == [][task' = task]_vars

\* ------------------------------------------------ claims on plays and roles

\* the elements of a sequence
Range(seq) == { seq[i] : i \in 1..Len(seq) }

\* the position of a task's section in the order pre, roles, tasks, post
SectionRank(t) ==
    CASE t.sec = "pre" -> 1
      [] t.sec = "role" -> 2
      [] t.sec = "tasks" -> 3
      [] t.sec = "post" -> 4

\* the tasks of a compiled list that belong to section sec, in order
OfSection(list, sec) == SelectSeq(list, LAMBDA t : t.sec = sec)

\* the primary-branch tasks of the n bare tasks of a play section
SectionTasks(sec, n) == [k \in 1..n |-> MkTask(0, sec, k, "block")]

\* the sum of the own-task counts of the given roles
RECURSIVE OwnTaskCount(_)
OwnTaskCount(roles) ==
    IF Len(roles) = 0 THEN 0
    ELSE role_files[role_objs[roles[1]]._role_path].tasks
           + OwnTaskCount(Tail(roles))

\* no role of the play has a dependency
NoDependencies ==
    \A i \in 1..Len(play.roles) : role_objs[play.roles[i]]._dependencies = <<>>

\* C8: Play.compile() returns the compiled pre-task blocks, then the
\* compiled roles in role-list order, then the compiled task blocks, then
\* the compiled post-task blocks: no task of a later section precedes a task
\* of an earlier one, each section holds its primary-branch tasks in order,
\* and with no role dependencies the length is the sum of the pre-task,
\* per-role own-task, task and post-task counts.
C8_PlayCompileOrder ==
    compiled.done =>
      LET c == compiled.task_list IN
        /\ \A i, j \in 1..Len(c) :
             i < j => SectionRank(c[i]) <= SectionRank(c[j])
        /\ \A i \in 1..Len(c) : c[i].branch = "block"
        /\ OfSection(c, "pre") = SectionTasks("pre", Len(play.pre_tasks))
        /\ OfSection(c, "role") = CompileRoles(role_objs, play.roles)
        /\ OfSection(c, "tasks") = SectionTasks("tasks", Len(play.tasks))
        /\ OfSection(c, "post") = SectionTasks("post", Len(play.post_tasks))
        /\ NoDependencies =>
             Len(c) = Len(play.pre_tasks) + OwnTaskCount(play.roles)
                        + Len(play.tasks) + Len(play.post_tasks)

C8_Witness ==
    /\ compiled.done
    /\ NoDependencies
    /\ Len(play.roles) = 2
    /\ Len(play.pre_tasks) = MaxTasks /\ Len(play.tasks) = MaxTasks
    /\ Len(play.post_tasks) = MaxTasks
    /\ OwnTaskCount(play.roles) = 2
    /\ Len(compiled.task_list) = 3 * MaxTasks + 2

\* which role each task of a compiled list belongs to, and which task of it
Owners(list) == [i \in 1..Len(list) |-> << list[i].role, list[i].k >>]

\* the tasks of Role r itself
OwnTasks(r) == CompileBlockList(role_objs[r]._task_blocks)

\* C9: for every Role r, r.compile() is the tasks of r's direct dependencies
\* in their declared order, each dependency contributing its own compile()
\* output (its dependencies' tasks first), followed by r's own tasks: every
\* task ahead of r's own tasks belongs to a transitive dependency of r, and
\* for r -> b -> c the order is c's tasks, b's tasks, r's tasks.
C9_DependenciesBeforeOwner ==
    \A r \in 1..Len(role_objs) :
      LET c    == RoleCompile(role_objs, r, <<>>)
          own  == OwnTasks(r)
          deps == role_objs[r]._dependencies
          ndep == Len(c) - Len(own)
      IN  /\ ndep >= 0
          /\ SubSeq(c, ndep + 1, Len(c)) = own
          /\ \A i \in 1..ndep :
               /\ c[i].role # r
               /\ c[i].role \in Range(GetAllDependencies(role_objs, r))
          /\ \A i \in (ndep + 1)..Len(c) : c[i].role = r
          /\ Owners(SubSeq(c, 1, ndep)) =
               Flatten([i \in 1..Len(deps) |->
                          Owners(RoleCompile(role_objs, deps[i], <<>>))])
          /\ \A b, d \in 1..Len(role_objs) :
               (deps = << b >> /\ role_objs[b]._dependencies = << d >>
                  /\ role_objs[d]._dependencies = <<>>) =>
                 Owners(c) = Owners(OwnTasks(d)) \o Owners(OwnTasks(b))
                               \o Owners(own)

\* C23: in r.compile() for a chain r -> b -> d of loaded roles, every task
\* of d carries a dependency chain that includes r and b, every task of b
\* carries a chain that includes r, and r's own tasks carry no chain.
C23_DepChainHoldsRoute ==
    stack = <<>> =>
      \A r, b, d \in 1..Len(role_objs) :
        (/\ role_objs[r]._dependencies = << b >>
         /\ role_objs[b]._dependencies = << d >>
         /\ role_objs[d]._dependencies = <<>>) =>
          LET c == RoleCompile(role_objs, r, <<>>) IN
            \A i \in 1..Len(c) :
              /\ c[i].role = d => {r, b} \subseteq Range(c[i]._dep_chain)
              /\ c[i].role = b => r \in Range(c[i]._dep_chain)
              /\ c[i].role = r => c[i]._dep_chain = <<>>

C9_Witness ==
    \E r, b, d \in 1..Len(role_objs) :
      /\ role_objs[r]._dependencies = << b >>
      /\ role_objs[b]._dependencies = << d >>
      /\ role_objs[d]._dependencies = <<>>
      /\ Len(OwnTasks(r)) = 1 /\ Len(OwnTasks(b)) = 1 /\ Len(OwnTasks(d)) = 1
      /\ Owners(RoleCompile(role_objs, r, <<>>)) = << <<d, 1>>, <<b, 1>>, <<r, 1>> >>
      /\ compiled.done /\ play.roles = << r >>

\* the role directories that directory n declares as dependencies, once it
\* was read
Declared(n) ==
    IF role_files[n].read
      THEN { role_files[n].dependencies[i].path :
               i \in 1..Len(role_files[n].dependencies) }
      ELSE {}

\* the roles reachable from the roles of S by at most k declared dependencies
RECURSIVE Reach(_, _)
Reach(S, k) ==
    IF k = 0 THEN S
    ELSE Reach(S \cup UNION { Declared(n) : n \in S }, k - 1)

\* the role of directory n depends, directly or transitively, on itself
DependsOnItself(n) == n \in Reach(Declared(n), Cardinality(Paths))

\* the Role objects that some Role.load call has returned
Returned ==
    Range(play.roles)
      \cup UNION { Range(stack[i].deps) : i \in 1..Len(stack) }
      \cup UNION { { ROLE_CACHE[n][e] : e \in DOMAIN ROLE_CACHE[n] } :
                     n \in DOMAIN ROLE_CACHE }

C10_Safety ==
    /\ Len(stack) <= RecursionLimit
    /\ \A r \in Returned : ~DependsOnItself(role_objs[r]._role_path)
    /\ (stack = <<>> /\ ~load_error) =>
          \A n \in Paths : ~DependsOnItself(n)

\* C10: Role.load on a role that depends directly or transitively on itself
\* terminates with an error for the caller: the nesting of Role.load calls
\* never exceeds the recursion limit, no Role.load call returns a Role that
\* depends on itself, when no call is in progress and no error was raised no
\* role read so far depends on itself, and every call in progress ends.
C10_CycleEndsInError ==
    /\ []C10_Safety
    /\ (stack # <<>>) ~> (stack = <<>>)

C10_Witness ==
    /\ load_error
    /\ stack = <<>>
    /\ role_files["A"].read /\ role_files["B"].read
    /\ role_files["A"].dependencies =
         << [role |-> "B", path |-> "B", params |-> EmptyDict] >>
    /\ role_files["B"].dependencies =
         << [role |-> "A", path |-> "A", params |-> EmptyDict] >>

\* ------------------------------------------------- claims on the registry

\* the Role objects constructed for role name n with parameters ps
Constructed(n, ps) ==
    { r \in 1..Len(role_objs) :
        role_objs[r]._role_name = n /\ role_objs[r]._role_params = ps }

\* C11: among the Role.load calls of one caller that have returned, two
\* calls with the same role name and an identical parameter set returned the
\* same Role, which was constructed once, and two calls with the same role
\* name and different parameter sets returned distinct Roles that are both
\* registered under their own key.
C11_SameKeySameRole ==
    \A p, q \in returned :
      /\ (p.inc.role = q.inc.role /\ p.inc.params = q.inc.params) =>
           /\ p.role = q.role
           /\ Constructed(p.inc.role, p.inc.params) = { p.role }
      /\ (p.inc.role = q.inc.role /\ p.inc.params # q.inc.params) =>
           /\ p.role # q.role
           /\ CacheLookup(ROLE_CACHE, p.inc) = p.role
           /\ CacheLookup(ROLE_CACHE, q.inc) = q.role

C11_Witness ==
    /\ stack = <<>>
    /\ Len(play.roles) = 2 /\ play.roles[1] # play.roles[2]
    /\ role_objs[play.roles[1]]._role_name = role_objs[play.roles[2]]._role_name
    /\ \E p \in returned :
         /\ p.inc.role = "C"
         /\ role_objs[p.role]._parents = << play.roles[1], play.roles[2] >>

\* C19: two Role.load calls that returned gave the same Role if and only
\* if their includes have the same role name, the same resolved role path
\* and an identical parameter set.
C19_DedupByNamePathParams ==
    \A p, q \in returned :
      (p.role = q.role) <=>
        (/\ p.inc.role = q.inc.role
         /\ p.inc.path = q.inc.path
         /\ p.inc.params = q.inc.params)

\* C18: among the Role.load calls that returned, to either caller, two
\* calls for the same role name and parameter set returned the same Role,
\* and that Role is the one registered for the key.
C18_OneWinnerPerKey ==
    \A p, q \in returned :
      (p.inc.role = q.inc.role /\ p.inc.params = q.inc.params) =>
        /\ p.role = q.role
        /\ CacheLookup(ROLE_CACHE, p.inc) = p.role

\* ----------------------------------------------- claims on variable scopes

\* the six layers of Role r's scope, lowest first: the defaults of its
\* transitive dependencies, its own defaults, what it inherits from its
\* parents, the declared vars and params of its transitive dependencies, its
\* own declared vars, its inclusion params
Layers(r) ==
    LET deps == GetAllDependencies(role_objs, r) IN
      << CombineAll([i \in 1..Len(deps) |-> role_objs[deps[i]]._default_vars]),
         role_objs[r]._default_vars,
         GetInheritedVars(role_objs, r),
         CombineAll([i \in 1..Len(deps) |->
                       CombineVars(role_objs[deps[i]]._role_vars,
                                   role_objs[deps[i]]._role_params)]),
         role_objs[r]._role_vars,
         role_objs[r]._role_params >>

\* the highest layer of Role r that defines key k, 0 if none does
HighestLayer(r, k) ==
    LET defining == { i \in 1..6 : k \in DOMAIN Layers(r)[i] } IN
      IF defining = {} THEN 0
      ELSE CHOOSE i \in defining : \A j \in defining : j <= i

\* C12: once the roles are loaded, the resolved scope of every Role holds
\* exactly the keys some layer defines, each with the value of the highest
\* layer that defines it.
C12_LayeredPrecedence ==
    (stack = <<>> /\ ~load_error) =>
      \A r \in 1..Len(role_objs) :
        /\ DOMAIN Resolve(role_objs, r) =
             UNION { DOMAIN Layers(r)[i] : i \in 1..6 }
        /\ \A k \in DOMAIN Resolve(role_objs, r) :
             /\ HighestLayer(r, k) > 0
             /\ Resolve(role_objs, r)[k] = Layers(r)[HighestLayer(r, k)][k]

\* the example of C12: default x = 11, declared x = 21, param x = 3
C12_ExampleHolds ==
    (stack = <<>> /\ ~load_error) =>
      \A r \in 1..Len(role_objs) :
        (/\ role_objs[r]._role_name = "A" /\ role_objs[r]._role_path = "A"
         /\ Len(role_objs[r]._parents) = 0
         /\ role_objs[r]._default_vars = DefaultsFile("A")
         /\ role_objs[r]._role_vars = VarsFile("A")) =>
          Resolve(role_objs, r)["x"] =
            IF "x" \in DOMAIN role_objs[r]._role_params THEN 3 ELSE 21

\* the ancestors of Role r: its parents and their ancestors
RECURSIVE Ancestors(_)
Ancestors(r) ==
    LET parents == Range(role_objs[r]._parents) IN
      parents \cup UNION { Ancestors(p) : p \in parents }

\* the Roles that may contribute to the scope of Role r: r itself, its
\* ancestors and its transitive dependencies
Contributors(r) ==
    {r} \cup Ancestors(r) \cup Range(GetAllDependencies(role_objs, r))

\* C31: once the roles are loaded, every variable in get_vars() of a Role r
\* has the value that the declared vars or the params of r itself, of an
\* ancestor of r or of a transitive dependency of r give it: nothing comes
\* from a Role that merely shares a dependency with r.
C31_ScopeFromOwnLineOnly ==
    (stack = <<>> /\ ~load_error) =>
      \A r \in 1..Len(role_objs) :
        \A k \in DOMAIN GetVars(role_objs, r) :
          \E s \in Contributors(r) :
            \/ Get(role_objs[s]._role_vars, k, 0) = GetVars(role_objs, r)[k]
            \/ Get(role_objs[s]._role_params, k, 0) = GetVars(role_objs, r)[k]

\* the number of inclusion paths from Role r down to Role d along the
\* dependency lists
RECURSIVE PathCount(_, _)
PathCount(r, d) ==
    IF r = d THEN 1
    ELSE LET deps == role_objs[r]._dependencies
             RECURSIVE Sum(_)
             Sum(i) == IF i = 0 THEN 0 ELSE PathCount(deps[i], d) + Sum(i - 1)
         IN  Sum(Len(deps))

\* the number of inclusion paths from the Play's role list down to Role d
RECURSIVE PlayPathCount(_, _)
PlayPathCount(roles, d) ==
    IF Len(roles) = 0 THEN 0
    ELSE PathCount(roles[1], d) + PlayPathCount(Tail(roles), d)

\* the positions of a compiled list that hold the k-th task of Role d
Occurrences(list, d, k) ==
    { i \in 1..Len(list) : list[i].role = d /\ list[i].k = k }

\* every task of Role d in the list is followed by an own task of a Role
\* that has d as a direct dependency
BeforeADependent(list, d) ==
    \A i \in 1..Len(list) :
      list[i].role = d =>
        \E j \in (i + 1)..Len(list) :
          d \in Range(role_objs[list[j].role]._dependencies)

\* C33: once the roles are loaded, in the compile() output of every Role r
\* each task of every other Role d occurs exactly as many times as there
\* are inclusion paths from r to d, each time ahead of a task of a Role that
\* depends on d, and in the compiled roles of the Play each task of d occurs
\* once per inclusion path from the Play's role list.
C33_TasksOncePerPath ==
    (stack = <<>> /\ ~load_error) =>
      \A d \in 1..Len(role_objs) :
        \A k \in 1..Len(OwnTasks(d)) :
          /\ \A r \in 1..Len(role_objs) :
               LET c == RoleCompile(role_objs, r, <<>>) IN
                 /\ Cardinality(Occurrences(c, d, k)) = PathCount(r, d)
                 /\ r # d => BeforeADependent(c, d)
          /\ Cardinality(Occurrences(CompileRoles(role_objs, play.roles),
                                      d, k))
               = PlayPathCount(play.roles, d)

C33_Witness ==
    /\ stack = <<>> /\ ~load_error
    /\ \E r, b, d \in 1..Len(role_objs) :
         /\ role_objs[r]._dependencies = << b, d >>
         /\ role_objs[b]._dependencies = << d >>
         /\ PathCount(r, d) = 2
         /\ Len(OwnTasks(d)) >= 1
         /\ Cardinality(Occurrences(RoleCompile(role_objs, r, <<>>), d, 1)) = 2
         /\ play.roles = << r >>

\* the Role a call of Role.load has just returned to its caller: the last
\* dependency of the calling _load_dependencies, or the Play's last role
JustReturned ==
    IF stack' # <<>>
      THEN LET deps == stack'[Len(stack')].deps IN deps[Len(deps)]
      ELSE play'.roles[Len(play'.roles)]

\* the innermost Role.load call of the Play returns on this step
LoadReturns ==
    /\ stack # <<>>
    /\ Len(stack') = Len(stack) - 1
    /\ load_error' = load_error

C28_ReturnStep ==
    LoadReturns =>
      LET top == stack[Len(stack)]
          r   == JustReturned
      IN  /\ r \in 1..Len(role_objs')
          /\ role_objs'[r]._role_name = top.inc.role
          /\ top.parent # 0 => top.parent \in Range(role_objs'[r]._parents)
          /\ top.inc.role \in DOMAIN ROLE_CACHE'
          /\ HashedParams(top.inc.params) \in DOMAIN ROLE_CACHE'[top.inc.role]
          /\ ROLE_CACHE'[top.inc.role][HashedParams(top.inc.params)] = r

C28_ParentsState ==
    \A d \in 1..Len(role_objs) :
      LET parents == role_objs[d]._parents IN
        /\ \A i, j \in 1..Len(parents) : i # j => parents[i] # parents[j]
        /\ \A x \in 1..Len(role_objs) :
             d \in Range(role_objs[x]._dependencies) => x \in Range(parents)

\* C28: when a call of Role.load returns a Role, on a hit or on a miss, the
\* Role is registered under the include's name and parameters and, when the
\* call had a parent role, that parent is in the Role's parent list; at all
\* times a Role's parent list holds every Role that has it as a dependency
\* and holds no Role twice.
C28_ParentsRecorded == []C28_ParentsState /\ [][C28_ReturnStep]_vars

C28_Witness ==
    /\ stack = <<>> /\ ~load_error
    /\ \E x, y, d \in 1..Len(role_objs) :
         /\ x # y
         /\ role_objs[x]._dependencies = << d, d >>
         /\ role_objs[y]._dependencies = << d >>
         /\ Range(role_objs[d]._parents) = {x, y}
         /\ Len(role_objs[d]._parents) = 2

\* ----------------------------------------------- claims on serialization

\* the names and parameters of the Roles of a sequence of Role indices
Identities(objs, rs) ==
    [i \in 1..Len(rs) |-> << objs[rs[i]]._role_name, objs[rs[i]]._role_params >>]

\* the names and parameters of a sequence of Roles
IdentitiesOf(roles) ==
    [i \in 1..Len(roles) |-> << roles[i]._role_name, roles[i]._role_params >>]

\* C13: once the roles are loaded, for every Role the Role deserialized
\* from its serialized form has the original's name, path, declared vars,
\* default vars, params, had_task_run and completed, and as many
\* dependencies and parents as the original, in the same order.
C13_SerializeRoundTrip ==
    (stack = <<>> /\ ~load_error) =>
      \A r \in 1..Len(role_objs) :
        LET orig == role_objs[r]
            back == Deserialize(Serialize(role_objs, r, TRUE), TRUE)
        IN  /\ back._role_name = orig._role_name
            /\ back._role_path = orig._role_path
            /\ back._role_vars = orig._role_vars
            /\ back._default_vars = orig._default_vars
            /\ back._role_params = orig._role_params
            /\ back._had_task_run = orig._had_task_run
            /\ back._completed = orig._completed
            /\ IdentitiesOf(back._dependencies) =
                 Identities(role_objs, orig._dependencies)
            /\ IdentitiesOf(back._parents) =
                 Identities(role_objs, orig._parents)

C13_Witness ==
    /\ stack = <<>> /\ ~load_error
    /\ \E r \in 1..Len(role_objs) :
         /\ Len(role_objs[r]._dependencies) = 2
         /\ role_objs[r]._completed
         /\ role_objs[r]._role_vars # EmptyDict
         /\ Len(Deserialize(Serialize(role_objs, r, TRUE), TRUE)._dependencies) = 2
    /\ \E r \in 1..Len(role_objs) :
         /\ Len(role_objs[r]._parents) = 2
         /\ Len(Deserialize(Serialize(role_objs, r, TRUE), TRUE)._parents) = 2

\* a serialized form, and every parent form nested in it along parent
\* edges, has no _dependencies entry
RECURSIVE HasNoDeps(_)
HasNoDeps(data) ==
    /\ "_dependencies" \notin DOMAIN data
    /\ \A i \in 1..Len(Get(data, "_parents", <<>>)) :
         HasNoDeps(data["_parents"][i])

\* in a serialized form and in the forms of its dependencies, every parent
\* form is without dependencies at any depth of the parent chain
RECURSIVE ParentsCarryNoDeps(_)
ParentsCarryNoDeps(data) ==
    /\ \A i \in 1..Len(Get(data, "_parents", <<>>)) :
         HasNoDeps(data["_parents"][i])
    /\ \A i \in 1..Len(Get(data, "_dependencies", <<>>)) :
         ParentsCarryNoDeps(data["_dependencies"][i])

\* the _dependencies entries of the serialized form data of Role r are the
\* forms of r's direct dependencies, in order, and so on along the
\* dependency edges
RECURSIVE DepsFollowEdges(_, _)
DepsFollowEdges(data, r) ==
    LET deps == role_objs[r]._dependencies
        sub  == Get(data, "_dependencies", <<>>)
    IN  /\ "_dependencies" \in DOMAIN data
        /\ Len(sub) = Len(deps)
        /\ \A i \in 1..Len(sub) :
             /\ Get(sub[i], "_role_name", "") = role_objs[deps[i]]._role_name
             /\ DepsFollowEdges(sub[i], deps[i])

\* the nesting depth of a serialized form
RECURSIVE Nesting(_)
Nesting(data) ==
    LET sub == Get(data, "_dependencies", <<>>) \o Get(data, "_parents", <<>>)
        RECURSIVE MaxOf(_)
        MaxOf(q) == IF q = <<>> THEN 0 ELSE Max(Nesting(Head(q)), MaxOf(Tail(q)))
    IN  1 + MaxOf(sub)

\* C29: once the roles of an acyclic role graph are loaded, serialize() of
\* every Role yields a form nested no deeper than a dependency path followed
\* by a parent path, in which no parent form, at any depth of the parent
\* chain, has a dependency sub-structure, and in which the dependency
\* sub-structures follow the dependency edges.
C29_SerializeBounded ==
    (stack = <<>> /\ ~load_error) =>
      \A r \in 1..Len(role_objs) :
        LET data == Serialize(role_objs, r, TRUE) IN
          /\ ParentsCarryNoDeps(data)
          /\ DepsFollowEdges(data, r)
          /\ Nesting(data) <= 2 * Len(role_objs)

C29_Witness ==
    /\ stack = <<>> /\ ~load_error
    /\ \E r, b, d \in 1..Len(role_objs) :
         /\ role_objs[r]._dependencies = << b >>
         /\ role_objs[b]._dependencies = << d >>
         /\ role_objs[b]._parents = << r >>
         /\ role_objs[d]._parents = << b >>
         /\ Nesting(Serialize(role_objs, r, TRUE)) = 5
         /\ HasNoDeps(Serialize(role_objs, r, TRUE)
                        ["_dependencies"][1]["_dependencies"][1]["_parents"][1])

====
